---------------------------- MODULE Spec2Model ----------------------------
(***************************************************************************)
(* Catalog crawl engine of ScrapingAPI (app/services/scraping_service.py)  *)
(* with the parsers and text helpers it calls.                             *)
(*                                                                         *)
(* Python values are tagged records [t, v]: t is the Python type and v the *)
(* characters of a str (a sequence of one-character strings) or the digits *)
(* of a number.  None is [t |-> "none"].                                   *)
(***************************************************************************)
EXTENDS Integers, Sequences, FiniteSets, TLC

VARIABLES
    op,             \* the service method in progress: "idle" before a call
    sa_pc,          \* scrape_all: position in the coroutine
    sa_max_pages,   \* settings.MAX_PAGES (0 stands for None / 0, both falsy)
    sa_enrich,      \* settings.ENRICH_FROM_PRODUCT_DETAIL
    page,           \* scrape_all: local `page`
    seen,           \* scrape_all: local `seen`
    collected,      \* scrape_all: local `collected`
    sa_requested,   \* listing pages requested so far, in order
    sa_served,      \* the response the origin gave to each listing request
    sa_delays,      \* number of asyncio.sleep(PAGE_DELAY_SECS) executed
    sa_inflight,    \* listing requests sent by get_text and not answered yet
    sa_saved,       \* arguments of product_repo.save_many calls, in order
    en_pc,          \* _enrich_from_detail: "idle", "running", "returned", "raised"
    en_caller,      \* who awaits _enrich_from_detail: "direct" or "scrape_all"
    en_limit,       \* settings.CONCURRENCY
    sem,            \* counter of asyncio.Semaphore(settings.CONCURRENCY)
    en_products,    \* the list passed to _enrich_from_detail (mutated in place)
    en_pre,         \* the same list as it was at the call
    en_task,        \* state of each work(p) task
    en_resp,        \* the detail response each finished task met
    vs_pc,          \* windowed search: "idle", "loop", "returned", "raised"
    vs_mode,        \* "rest" (scrape_vtex_rest) or "windowed" (_vtex_windowed_search)
    vs_size,        \* page_size
    vs_start,       \* local `start`
    vs_seen,        \* local `seen`
    vs_collected,   \* local `collected`
    vs_requests,    \* the params (fq, _from, _to) of every request of the search, in order
    vs_parsed,      \* every row parse_vtex_rest returned, over all windows
    vs_fq,          \* base_params["fq"] of the search, None when the key is absent
    vs_inflight,    \* requests sent by client.get and not answered yet
    vs_served,      \* the status and payload length of every answer, in order
    vs_last,        \* the payload of the latest answer
    de_pc,          \* scrape_vtex_rest_deep: position in the coroutine
    de_qs,          \* the argument qs of scrape_vtex_rest_deep
    de_catalog,     \* how many products the origin's unfiltered search exposes
    de_global,      \* local `global_results`
    de_tree,        \* CategoriesTrees of the facets answer
    de_leaves,      \* local `leaves`
    de_leaf,        \* index in `leaves` of the shard in progress
    de_seen,        \* local `seen`
    de_collected,   \* local `collected`
    de_facets,      \* number of requests sent to the facets endpoint
    de_facet_status,\* the status of the latest answer of the facets endpoint, 0 before it
    de_requests,    \* the params of every request of the finished searches, in order
    de_result,      \* the list scrape_vtex_rest_deep returned
    de_shards,      \* the requests and the result of every shard search merged so far
    st_kind,        \* the repository the calls go to: "none", "pg", "memory", "cat_memory", "cat_sqlite"
    st_calls,       \* repository calls made so far
    pg_rows,        \* PgProductRepository: the rows of the products table
    mem_items,      \* InMemoryProductRepository._items
    st_keys,        \* the sku_id of every product a save_many call that returned was given
    st_last,        \* the argument of the latest repository call, whether it raised,
                    \* and whether the call before had the same argument
    cat_rows,       \* category repository: _by_slug.values() / the categories table by id
    cat_auto_id,    \* InMemoryCategoryRepository._auto_id / the AUTOINCREMENT sequence
    cat_out         \* what the latest ensure_path returned

sa_vars == <<sa_pc, sa_max_pages, sa_enrich, page, seen, collected,
             sa_requested, sa_served, sa_delays, sa_inflight, sa_saved>>

en_vars == <<en_pc, en_caller, en_limit, sem, en_products, en_pre, en_task, en_resp>>

vs_vars == <<vs_pc, vs_mode, vs_size, vs_start, vs_seen, vs_collected,
             vs_requests, vs_parsed, vs_fq, vs_inflight, vs_served, vs_last>>

de_vars == <<de_pc, de_qs, de_catalog, de_global, de_tree, de_leaves, de_leaf,
             de_seen, de_collected, de_facets, de_facet_status, de_requests, de_result,
             de_shards>>

st_vars == <<st_kind, st_calls, pg_rows, mem_items, st_keys, st_last,
             cat_rows, cat_auto_id, cat_out>>

vars == <<op, sa_vars, en_vars, vs_vars, de_vars, st_vars>>

-----------------------------------------------------------------------------
(* Bounds of the model *)

MaxPage == 3          \* listing pages above this number are served empty
MaxItems == 2         \* items on one listing page
MaxPagesCfg == 2      \* largest settings.MAX_PAGES tried
MaxProducts == 2      \* products in one _enrich_from_detail call
MaxConcurrency == 2   \* largest settings.CONCURRENCY tried
MaxPageSize == 2      \* largest page_size tried
MaxWindows == 2       \* windows after which the origin serves no full window
MaxCalls == 3         \* calls made to one repository

-----------------------------------------------------------------------------
(* Python values *)

PyNone == [t |-> "none", v |-> <<>>]
Str(s) == [t |-> "str", v |-> s]
Num(d) == [t |-> "num", v |-> d]

\* bool(x)
Truthy(x) ==
    CASE x.t = "none" -> FALSE
      [] x.t = "str"  -> x.v # <<>>
      [] x.t = "num"  -> x.v # <<"0">>
      [] OTHER        -> TRUE

\* a or b
PyOr(a, b) == IF Truthy(a) THEN a ELSE b

\* str(x)
PyStr(x) ==
    CASE x.t = "none" -> Str(<<"N", "o", "n", "e">>)
      [] OTHER        -> Str(x.v)

RECURSIVE LStrip(_)
LStrip(s) == IF s # <<>> /\ Head(s) = " " THEN LStrip(Tail(s)) ELSE s

RECURSIVE RStrip(_)
RStrip(s) ==
    IF s # <<>> /\ s[Len(s)] = " " THEN RStrip(SubSeq(s, 1, Len(s) - 1)) ELSE s

\* s.strip()
Strip(s) == RStrip(LStrip(s))

\* s[:n]
Prefix(s, n) == SubSeq(s, 1, IF Len(s) < n THEN Len(s) ELSE n)

\* s.startswith(p)
StartsWith(s, p) == Len(s) >= Len(p) /\ SubSeq(s, 1, Len(p)) = p

\* re.sub(r"\s+", " ", s): every run of blanks becomes one blank
RECURSIVE CollapseWs(_)
CollapseWs(s) ==
    IF Len(s) < 2 THEN s
    ELSE IF s[1] = " " /\ s[2] = " " THEN CollapseWs(Tail(s))
    ELSE <<s[1]>> \o CollapseWs(Tail(s))

-----------------------------------------------------------------------------
(* app/utils/text.py *)

\* raises TypeError in re.sub when text is truthy and not a str
normalize_whitespace_raises(text) == Truthy(text) /\ text.t # "str"

normalize_whitespace(text) ==
    IF ~Truthy(text) THEN PyNone
    ELSE PyOr(Str(Strip(CollapseWs(text.v))), PyNone)

truncate(s, max_len) ==
    IF s = PyNone THEN PyNone
    ELSE IF Len(PyStr(s).v) > max_len THEN Str(Prefix(PyStr(s).v, max_len))
    ELSE PyStr(s)

coerce_str_id(val, max_len) ==
    IF val = PyNone THEN PyNone
    ELSE IF Strip(PyStr(val).v) = <<>> THEN PyNone
    ELSE Str(Prefix(Strip(PyStr(val).v), max_len))

\* to_float_price is imported by app/parsers/jsonld.py from app/utils/text.py,
\* which does not define it; modelled after the extractor contract (never
\* raises, null for what is not a number) and its sibling to_decimal_price.
IsDigits(s) == s # <<>> /\ \A i \in 1..Len(s) : s[i] \in {"0", "1", "2", "3", "4", "5", "6", "7", "8", "9"}

to_float_price(val) ==
    IF val = PyNone THEN PyNone
    ELSE IF val.t \in {"str", "num"} /\ IsDigits(Strip(val.v)) THEN Num(Strip(val.v))
    ELSE PyNone


\* html.unescape + _TAG_RE.sub(" ", ...): a tag is "<", one or more characters
\* other than ">", then ">"
RECURSIVE StripTags(_)
StripTags(s) ==
    IF s = <<>> THEN s
    ELSE IF s[1] = "<" /\ \E j \in 3..Len(s) : s[j] = ">" /\ \A k \in 2..(j - 1) : s[k] # ">"
         THEN LET j == CHOOSE j \in 3..Len(s) : s[j] = ">" /\ \A k \in 2..(j - 1) : s[k] # ">"
              IN  <<" ">> \o StripTags(SubSeq(s, j + 1, Len(s)))
    ELSE <<s[1]>> \o StripTags(Tail(s))

html_to_text_raises(s) == Truthy(s) /\ s.t # "str"

html_to_text(s) ==
    IF ~Truthy(s) THEN PyNone ELSE normalize_whitespace(Str(StripTags(s.v)))

-----------------------------------------------------------------------------
(* app/parsers/jsonld.py *)

\* d.get(k) on a dict modelled as a record
DictGet(d, k) == IF k \in DOMAIN d THEN d[k] ELSE PyNone

IsEmptyVal(x) == x = PyNone \/ x = Str(<<>>)

RECURSIVE _first(_)
_first(vals) ==
    IF vals = <<>> THEN PyNone
    ELSE IF ~IsEmptyVal(Head(vals)) THEN Head(vals)
    ELSE _first(Tail(vals))

\* A JSON-LD Product node is a record of the members the parser reads:
\* id ("@id"), url, name, image, brand, description, sku, mpn and offers;
\* offers is PyNone or a record [t |-> "dict", lowPrice, price, priceCurrency].
\* A brand dict is [t |-> "dict", v |-> the characters of its "name"].
BrandOf(prod) ==
    IF prod.brand.t = "dict" THEN PyOr(Str(prod.brand.v), PyNone)
    ELSE IF prod.brand.t = "str" THEN prod.brand
    ELSE PyNone

PriceOf(prod) ==
    IF prod.offers.t = "dict"
    THEN _first(<<prod.offers.lowPrice, prod.offers.price>>)
    ELSE PyNone

CurrencyOf(prod) ==
    IF prod.offers.t = "dict" THEN _first(<<prod.offers.priceCurrency>>) ELSE PyNone

\* TypeError out of html.unescape / re.sub on a member that is not a str
_product_from_jsonld_raises(prod) ==
    \/ html_to_text_raises(prod.description)
    \/ normalize_whitespace_raises(prod.name)
    \/ normalize_whitespace_raises(BrandOf(prod))

_product_from_jsonld(prod) ==
    [nombre       |-> PyOr(normalize_whitespace(prod.name), Str(<<>>)),
     descripcion  |-> html_to_text(prod.description),
     precio       |-> to_float_price(PriceOf(prod)),
     divisa       |-> CurrencyOf(prod),
     url_producto |-> _first(<<prod.id, prod.url>>),
     image_url    |-> prod.image,
     sku          |-> IF PyOr(prod.sku, prod.mpn) # PyNone
                      THEN PyStr(PyOr(prod.sku, prod.mpn)) ELSE PyNone,
     brand        |-> normalize_whitespace(BrandOf(prod))]

\* The html of a listing page is modelled by the "item" nodes of its ItemList
parse_itemlist_products_raises(html) ==
    \E i \in 1..Len(html) : _product_from_jsonld_raises(html[i])

parse_itemlist_products(html) ==
    [i \in 1..Len(html) |-> _product_from_jsonld(html[i])]

-----------------------------------------------------------------------------
(* app/domain/models.py *)

Short12 == 12
Short64 == 64
Short128 == 128

\* Optional[Annotated[str, StringConstraints(max_length=n)]] with
\* str_strip_whitespace: None or a str of at most n characters once stripped
ShortOk(x, n) == x = PyNone \/ (x.t = "str" /\ Len(Strip(x.v)) <= n)

StrOk(x) == x = PyNone \/ x.t = "str"

StripStr(x) == IF x.t = "str" THEN Str(Strip(x.v)) ELSE x

\* ValidationError of Product(**f)
Product_raises(f) ==
    ~ /\ ShortOk(f.sku_id, Short12)
      /\ ShortOk(f.product_id, Short12)
      /\ StrOk(f.nombre_producto)
      /\ ShortOk(f.marca, Short64)
      /\ ShortOk(f.categoria_comerciante_id, Short128)
      /\ ShortOk(f.categoria_id, Short12)
      /\ ShortOk(f.nombre_categoria, Short128)
      /\ ShortOk(f.unidad, Short12)
      /\ (f.precio = PyNone \/ to_float_price(f.precio) # PyNone)
      /\ ShortOk(f.tipo_precio, Short12)
      /\ StrOk(f.imagen)
      /\ StrOk(f.url_producto)

Product(f) ==
    [id                       |-> PyNone,
     sku_id                   |-> StripStr(f.sku_id),
     product_id               |-> StripStr(f.product_id),
     nombre_producto          |-> StripStr(f.nombre_producto),
     marca                    |-> StripStr(f.marca),
     categoria_comerciante_id |-> StripStr(f.categoria_comerciante_id),
     categoria_id             |-> StripStr(f.categoria_id),
     nombre_categoria         |-> StripStr(f.nombre_categoria),
     unidad                   |-> StripStr(f.unidad),
     precio                   |-> to_float_price(f.precio),
     tipo_precio              |-> StripStr(f.tipo_precio),
     imagen                   |-> StripStr(f.imagen),
     url_producto             |-> StripStr(f.url_producto),
     categorias               |-> <<>>]

-----------------------------------------------------------------------------
(* app/services/scraping_service.py: listing pages *)

\* self.base_url: settings.BASE_URL.rstrip("/"), a site root
BaseUrl == <<"h", "t", "t", "p", ":", "/", "/", "e">>

Http == <<"h", "t", "t", "p">>

\* urljoin(self.base_url + "/", ref) for a reference that is a path
UrlJoinBase(ref) ==
    IF ref # <<>> /\ Head(ref) = "/" THEN BaseUrl \o ref ELSE BaseUrl \o <<"/">> \o ref

\* the keys _fetch_list_page subscripts on every row
ListingReadKeys ==
    {"url_producto", "nombre_producto", "sku_id", "product_id", "marca",
     "categoria_comerciante", "categoria_id", "nombre_categoria", "unidad",
     "precio", "tipo_precio", "imagen"}

ListingUrlAbs(it) ==
    IF Truthy(it.url_producto) /\ ~StartsWith(PyStr(it.url_producto).v, Http)
    THEN Str(UrlJoinBase(PyStr(it.url_producto).v))
    ELSE it.url_producto

ListingFields(it) ==
    [nombre_producto          |-> it.nombre_producto,
     sku_id                   |-> it.sku_id,
     product_id               |-> it.product_id,
     marca                    |-> it.marca,
     categoria_comerciante_id |-> it.categoria_comerciante,
     categoria_id             |-> it.categoria_id,
     nombre_categoria         |-> it.nombre_categoria,
     unidad                   |-> it.unidad,
     precio                   |-> it.precio,
     tipo_precio              |-> it.tipo_precio,
     imagen                   |-> it.imagen,
     url_producto             |-> ListingUrlAbs(it)]

\* KeyError on a row that lacks a subscripted key, ValidationError of Product
RowRaises(it) ==
    \/ ~(ListingReadKeys \subseteq DOMAIN it)
    \/ Product_raises(ListingFields(it))

\* _fetch_list_page after a successful get_text: the exception it raises, if any
_fetch_list_page_raises(html) ==
    \/ parse_itemlist_products_raises(html)
    \/ \E i \in 1..Len(html) : RowRaises(parse_itemlist_products(html)[i])

_fetch_list_page(html) ==
    [i \in 1..Len(html) |-> Product(ListingFields(parse_itemlist_products(html)[i]))]

-----------------------------------------------------------------------------
(* app/services/scraping_service.py: _enrich_from_detail.work *)

\* str.lower() on the letters the model's strings use
LowerChar(c) ==
    CASE c = "A" -> "a" [] c = "H" -> "h" [] c = "T" -> "t" [] OTHER -> c

Lower(s) == [i \in 1..Len(s) |-> LowerChar(s[i])]

RECURSIVE RStripSlash(_)
RStripSlash(s) ==
    IF s # <<>> /\ s[Len(s)] = "/" THEN RStripSlash(SubSeq(s, 1, Len(s) - 1)) ELSE s

\* s.split("/")[-1]
RECURSIVE LastSegment(_)
LastSegment(s) ==
    IF s = <<>> \/ s[Len(s)] = "/" THEN <<>>
    ELSE LastSegment(SubSeq(s, 1, Len(s) - 1)) \o <<s[Len(s)]>>

\* (str(p.url_producto).rstrip("/").split("/")[-1] or "").lower()
ProdSlug(p) == Lower(LastSegment(RStripSlash(PyStr(p.url_producto).v)))

\* (c.get("slug") or "").lower()
CrumbSlug(c) == Lower(PyOr(c.slug, Str(<<>>)).v)

Candidates(p, crumbs) ==
    SelectSeq(crumbs, LAMBDA c : CrumbSlug(c) \notin {<<"h", "o", "m", "e">>, <<>>, ProdSlug(p)})

\* the choice that takes the last crumb whatever its slug
ChosenLeaf(p, crumbs) == crumbs[Len(crumbs)]

\* the choice whose fallback is always the last raw crumb
ChosenFallbackLast(p, crumbs) ==
    IF Candidates(p, crumbs) # <<>>
    THEN Candidates(p, crumbs)[Len(Candidates(p, crumbs))]
    ELSE crumbs[Len(crumbs)]

\* the chosen crumb, for a non-empty list of crumbs
Chosen(p, crumbs) ==
    IF Candidates(p, crumbs) # <<>>
    THEN Candidates(p, crumbs)[Len(Candidates(p, crumbs))]
    ELSE IF Len(crumbs) >= 2 THEN crumbs[Len(crumbs) - 1]
    ELSE crumbs[Len(crumbs)]

\* a back-fill that also stores the trail in the product's categorias
WithCategoryList(p, crumbs) ==
    IF crumbs = <<>> THEN p
    ELSE [p EXCEPT
            !.nombre_categoria = PyOr(p.nombre_categoria, truncate(Chosen(p, crumbs).name, 128)),
            !.categoria_id = PyOr(p.categoria_id, coerce_str_id(Chosen(p, crumbs).slug, 12)),
            !.categorias = crumbs]

\* lines 86-95: the category back-fill from the crumbs
WithCategory(p, crumbs) ==
    IF crumbs = <<>> THEN p
    ELSE [p EXCEPT
            !.nombre_categoria = PyOr(p.nombre_categoria, truncate(Chosen(p, crumbs).name, 128)),
            !.categoria_id = PyOr(p.categoria_id, coerce_str_id(Chosen(p, crumbs).slug, 12))]

\* WithDetail with plain assignments: the `or` and the `is None` test dropped
WithDetailOverwrite(p, prod_detail) ==
    [p EXCEPT
        !.imagen = DictGet(prod_detail, "imagen"),
        !.marca = truncate(DictGet(prod_detail, "marca"), 64),
        !.sku_id = coerce_str_id(PyOr(DictGet(prod_detail, "sku_id"),
                                      DictGet(prod_detail, "product_id")), 12),
        !.precio = DictGet(prod_detail, "precio")]

\* lines 100-105: the back-fill from the dict parse_first_product_jsonld returned
WithDetail(p, prod_detail) ==
    [p EXCEPT
        !.imagen = PyOr(p.imagen, DictGet(prod_detail, "imagen")),
        !.marca = PyOr(p.marca, truncate(DictGet(prod_detail, "marca"), 64)),
        !.sku_id = PyOr(p.sku_id,
                        coerce_str_id(PyOr(DictGet(prod_detail, "sku_id"),
                                           DictGet(prod_detail, "product_id")), 12)),
        !.precio = IF p.precio = PyNone THEN DictGet(prod_detail, "precio") ELSE p.precio]

\* A detail response is [ok, crumbs_raise, crumbs, has_product, product]:
\*   ok            get_text returned (no transport error, no raise_for_status)
\*   crumbs_raise  parse_breadcrumbs raises (a breadcrumb item whose url is not a str)
\*   crumbs        what parse_breadcrumbs returns otherwise
\*   has_product   the page carries a JSON-LD Product node, `product`
parse_breadcrumbs_raises(html) == html.crumbs_raise

\* the crumbs of the page; every crumb kept has a non-empty slug (line 266)
parse_breadcrumbs(html) == html.crumbs

parse_first_product_jsonld_raises(html) ==
    html.has_product /\ _product_from_jsonld_raises(html.product)

\* the dict of the first Product node; called only when html.has_product
parse_first_product_jsonld(html) == _product_from_jsonld(html.product)

\* The exception work's try block meets, "none" when it runs to its end
WorkException(resp) ==
    IF ~resp.ok THEN "http"
    ELSE IF parse_breadcrumbs_raises(resp) THEN "crumbs"
    ELSE IF parse_first_product_jsonld_raises(resp) THEN "detail"
    ELSE "none"

\* the product as the try block leaves it
WorkResult(p, resp) ==
    CASE WorkException(resp) \in {"http", "crumbs"} -> p
      [] WorkException(resp) = "detail" -> WithCategory(p, parse_breadcrumbs(resp))
      [] OTHER ->
            IF resp.has_product
            THEN WithDetail(WithCategory(p, parse_breadcrumbs(resp)),
                            parse_first_product_jsonld(resp))
            ELSE WithCategory(p, parse_breadcrumbs(resp))

\* a handler that catches the errors of the fetch only
ExceptCatchesHttpOnly(exc) == exc = "http"

\* `except Exception`: every exception of get_text and the parsers is caught
ExceptCatches(exc) == TRUE

\* an acquire that lets one task too many through
SemAcquireOffByOne(value) == value >= 0

\* Semaphore.acquire proceeds only while the counter is positive
SemCanAcquire(value) == value > 0

\* a release that happens only when the try block met no exception
SemReleaseOnSuccess(value, exc) == IF exc = "none" THEN value + 1 ELSE value

\* `async with sem` releases on the way out, whatever the block raised
SemRelease(value, exc) == value + 1

Finished == {"done", "failed", "raised"}

\* a wait that ends with the first task to finish
GatherFirstCompleted(tasks) == \E i \in 1..Len(tasks) : tasks[i] \in Finished

\* asyncio.gather(*tasks) has its result: every task has finished
GatherComplete(tasks) == \A i \in 1..Len(tasks) : tasks[i] \in Finished

\* asyncio.gather(*tasks) re-raises the exception of a task that raised
GatherRaises(tasks) == \E i \in 1..Len(tasks) : tasks[i] = "raised"

-----------------------------------------------------------------------------
(* app/parsers/vtex_rest.py *)

\* A payload entry is [productId, brand, productName, linkText, categoryId,
\* categoryName, items]; an item (SKU) is [itemId, imageUrl, Price, unit].
\* imageUrl, Price and categoryId/categoryName stand for what _first_image_url,
\* _price_block and _category_from_product return.
VtexFields(p, it) ==
    [sku_id                   |-> PyOr(PyStr(PyOr(it.itemId, Str(<<>>))), PyNone),
     product_id               |-> PyOr(PyStr(PyOr(p.productId, Str(<<>>))), PyNone),
     nombre_producto          |-> normalize_whitespace(p.productName),
     marca                    |-> normalize_whitespace(p.brand),
     categoria_comerciante_id |-> PyNone,
     categoria_id             |-> p.categoryId,
     nombre_categoria         |-> p.categoryName,
     unidad                   |-> IF it.unit \in {PyNone, Str(<<>>), Str(<<"0">>)}
                                  THEN PyNone ELSE PyStr(it.unit),
     precio                   |-> it.Price,
     tipo_precio              |-> IF it.Price # PyNone
                                  THEN Str(<<"N", "O", "R", "M", "A", "L">>) ELSE PyNone,
     imagen                   |-> it.imageUrl,
     url_producto             |-> IF Truthy(p.linkText)
                                  THEN Str(BaseUrl \o <<"/">> \o p.linkText.v \o <<"/", "p">>)
                                  ELSE PyNone]

RECURSIVE parse_vtex_rest(_)
parse_vtex_rest(items) ==
    IF items = <<>> THEN <<>>
    ELSE [j \in 1..Len(Head(items).items) |->
              Product(VtexFields(Head(items), Head(items).items[j]))]
         \o parse_vtex_rest(Tail(items))

\* ValidationError of a Product(...) built by parse_vtex_rest
parse_vtex_rest_raises(items) ==
    \E i \in 1..Len(items) : \E j \in 1..Len(items[i].items) :
        Product_raises(VtexFields(items[i], items[i].items[j]))

-----------------------------------------------------------------------------
(* app/services/scraping_service.py: scrape_all, lines 129-135 *)

UrlKey(it) == PyStr(it.url_producto).v

\* new_items = [it for it in items if str(it.url_producto) not in seen]
NewItems(items, seenSet) == SelectSeq(items, LAMBDA it : UrlKey(it) \notin seenSet)

\* for it in items: seen.add(str(it.url_producto))
MarkSeen(items, seenSet) == seenSet \cup {UrlKey(items[i]) : i \in 1..Len(items)}

(* scrape_vtex_rest lines 191-199 and _vtex_windowed_search lines 275-279:
   the loop over the parsed rows; the result is [seen, collected] *)
\* the loop of lines 193-197 without the test against `seen`
RestDedupNoSeen(parsed, seenSet, coll) ==
    [seen      |-> seenSet \cup {parsed[i].sku_id.v : i \in {j \in 1..Len(parsed) : Truthy(parsed[j].sku_id)}},
     collected |-> coll \o SelectSeq(parsed, LAMBDA r : Truthy(r.sku_id))]

RECURSIVE RestDedup(_, _, _)
RestDedup(parsed, seenSet, coll) ==
    IF parsed = <<>> THEN [seen |-> seenSet, collected |-> coll]
    ELSE IF Truthy(Head(parsed).sku_id) /\ Head(parsed).sku_id.v \notin seenSet
         THEN RestDedup(Tail(parsed), seenSet \cup {Head(parsed).sku_id.v},
                        Append(coll, Head(parsed)))
    ELSE RestDedup(Tail(parsed), seenSet, coll)

\* the loop of lines 275-279 without the test against `seen`
WindowDedupNoSeen(parsed, seenSet, coll) ==
    [seen      |-> seenSet \cup {parsed[i].sku_id.v : i \in {j \in 1..Len(parsed) : Truthy(parsed[j].sku_id)}},
     collected |-> coll \o SelectSeq(parsed, LAMBDA r : Truthy(r.sku_id))]

RECURSIVE WindowDedup(_, _, _)
WindowDedup(parsed, seenSet, coll) ==
    IF parsed = <<>> THEN [seen |-> seenSet, collected |-> coll]
    ELSE IF Truthy(Head(parsed).sku_id) /\ Head(parsed).sku_id.v \notin seenSet
         THEN WindowDedup(Tail(parsed), seenSet \cup {Head(parsed).sku_id.v},
                          Append(coll, Head(parsed)))
    ELSE WindowDedup(Tail(parsed), seenSet, coll)

-----------------------------------------------------------------------------
(* app/services/scraping_service.py: the windowed search, lines 247-285 *)

\* a status for which the loop stops without raising
IsBadRangeNever(status) == FALSE

\* line 265: r.status_code in (400, 416)
IsBadRange(status) == status \in {400, 416}

\* a check that lets every answer through
raise_for_status_never(status) == FALSE

\* line 267: httpx raises HTTPStatusError unless the status is 2xx
raise_for_status(status) == status \notin 200..299

\* the offset advanced by one item too few: the next window overlaps
NextStartOverlap(start, page_size) == start + page_size - 1

\* line 283: start += page_size
NextStart(start, page_size) == start + page_size

\* a stop decided by the number of rows parsed from the payload
ShortPageByRows(payload, page_size) == Len(parse_vtex_rest(payload)) < page_size

\* a stop that takes a full window for a short one
ShortPageInclusive(payload, page_size) == Len(payload) <= page_size

\* line 281 (208 in scrape_vtex_rest): len(payload) < page_size
ShortPage(payload, page_size) == Len(payload) < page_size

\* line 261: params = base_params with _from and _to; fq is None when
\* base_params has no "fq"
WindowParams(fq, start, page_size) ==
    [fq |-> fq, _from |-> start, _to |-> start + page_size - 1]

-----------------------------------------------------------------------------
(* app/services/scraping_service.py: _vtex_list_leaf_categories, lines 221-244 *)

\* A node of the facet tree is a record of the members walk reads, under both
\* spellings: Id/id, Name/name, Link/link (Python values) and
\* Children/children (a sequence of nodes, <<>> for a missing or empty list).

\* line 233: n.get("Children") or n.get("children") or []
NodeChildren(n) == IF n.Children # <<>> THEN n.Children ELSE n.children

\* line 237: str(n.get("Id") or n.get("id") or "")
NodeCid(n) == PyStr(PyOr(PyOr(n.Id, n.id), Str(<<>>)))

\* lines 237-241: the dict built from a node
LeafDict(n) ==
    [id   |-> NodeCid(n),
     name |-> PyOr(n.Name, n.name),
     link |-> PyOr(PyOr(n.Link, n.link), PyNone)]

\* lines 240-241: what a node without children adds to `leaves`
LeafOf(n) == IF Truthy(NodeCid(n)) THEN <<LeafDict(n)>> ELSE <<>>

\* a walk that never descends: a node with children is passed over
walkNoDescent(nodes) ==
    IF nodes = <<>> THEN <<>>
    ELSE LET tops == SelectSeq(nodes, LAMBDA n : NodeChildren(n) = <<>> /\ Truthy(NodeCid(n)))
         IN  [i \in 1..Len(tops) |-> LeafOf(tops[i])[1]]

\* lines 231-241: walk(nodes), as the list it appends to `leaves`
RECURSIVE walk(_)
walk(nodes) ==
    IF nodes = <<>> THEN <<>>
    ELSE (IF NodeChildren(Head(nodes)) # <<>>
          THEN walk(NodeChildren(Head(nodes)))
          ELSE LeafOf(Head(nodes)))
         \o walk(Tail(nodes))

-----------------------------------------------------------------------------
(* app/services/scraping_service.py: scrape_vtex_rest_deep, lines 288-317 *)

VTEX_PAGE_SIZE == 50

CapThreshold == 2400

\* line 290: int(qs.get("page_size") or settings.VTEX_PAGE_SIZE or 50); the
\* page_size of qs is an integer, 0 when the key is absent
DeepPageSize(qs) ==
    IF qs.page_size # 0 THEN qs.page_size
    ELSE IF VTEX_PAGE_SIZE # 0 THEN VTEX_PAGE_SIZE ELSE 50

\* line 294: base_params keeps every key of qs but endpoint, page_size,
\* referer_path and map, so base_params.get("fq") is qs.get("fq")
BaseParamsFq(qs) == qs.fq

\* a test that takes a result of exactly the threshold for complete
BelowCapInclusive(results) == Len(results) <= CapThreshold

\* line 299: len(global_results) < 2400
BelowCap(results) == Len(results) < CapThreshold

\* line 304: the sku_id of every row of global_results that has one
GlobalSeen(results) ==
    {results[i].sku_id.v : i \in {j \in 1..Len(results) : Truthy(results[j].sku_id)}}

\* a shard search that is given the params of the global pass
ShardFqUnset(leaf) == PyNone

\* line 309: shard_params["fq"] = f"C:/{leaf['id']}/"
ShardFq(leaf) == Str(<<"C", ":", "/">> \o leaf.id.v \o <<"/">>)

\* the loop of lines 311-315 without the test against `seen`
ShardMergeNoSeen(shard_results, seenSet, coll) ==
    [seen      |-> seenSet \cup GlobalSeen(shard_results),
     collected |-> coll \o SelectSeq(shard_results, LAMBDA r : Truthy(r.sku_id))]

\* a merge that puts the new rows of a shard in front of the list
ShardMergeFront(shard_results, seenSet, coll) ==
    [seen      |-> seenSet \cup GlobalSeen(shard_results),
     collected |-> SelectSeq(shard_results,
                             LAMBDA r : Truthy(r.sku_id) /\ r.sku_id.v \notin seenSet) \o coll]

\* lines 311-315: the result is [seen, collected]
RECURSIVE ShardMerge(_, _, _)
ShardMerge(shard_results, seenSet, coll) ==
    IF shard_results = <<>> THEN [seen |-> seenSet, collected |-> coll]
    ELSE IF Truthy(Head(shard_results).sku_id) /\ Head(shard_results).sku_id.v \notin seenSet
         THEN ShardMerge(Tail(shard_results), seenSet \cup {Head(shard_results).sku_id.v},
                         Append(coll, Head(shard_results)))
    ELSE ShardMerge(Tail(shard_results), seenSet, coll)

-----------------------------------------------------------------------------
(* What the origin serves: the pages and payloads the model draws from *)

JsonNode(id, name, brand, sku, price) ==
    [id |-> id, url |-> PyNone, name |-> name, image |-> Str(<<"i">>),
     brand |-> brand, description |-> PyNone, sku |-> sku, mpn |-> PyNone,
     offers |-> [t |-> "dict", v |-> <<>>, lowPrice |-> PyNone, price |-> price,
                 priceCurrency |-> PyNone]]

Other == <<"O", "t", "h", "e", "r">>
Acme == <<"A", "c", "m", "e">>
Tools == <<"t", "o", "o", "l", "s", "-", "a", "n", "d", "-", "m", "o", "r", "e">>
Home == <<"H", "o", "m", "e">>

\* nodes of listing pages: a relative url, an absolute one, the first url again
ListingNodes ==
    {JsonNode(Str(<<"/", "a">>), Str(<<"x">>), Str(Acme), Str(<<"1">>), Num(<<"5">>)),
     JsonNode(Str(BaseUrl \o <<"/", "b">>), Str(<<"y">>), PyNone, PyNone, PyNone),
     JsonNode(Str(<<"/", "a">>), Str(<<"z">>), PyNone, Str(<<"2">>), PyNone)}

SeqsUpTo(S, n) == UNION {[1..k -> S] : k \in 0..n}

ListingPages == SeqsUpTo(ListingNodes, MaxItems)

\* the Product node of a detail page: brand "Other", a sku, an image, a price
DetailNode == JsonNode(PyNone, Str(<<"x">>), Str(Other), Str(<<"7", "7">>), Num(<<"9">>))

\* a Product node whose "name" is a number: normalize_whitespace raises on it
BadNode == JsonNode(PyNone, Num(<<"7">>), PyNone, PyNone, PyNone)

Crumb(name, slug) == [name |-> name, slug |-> slug]

FullTrail ==
    <<Crumb(Str(Home), Str(<<"h", "o", "m", "e">>)),
      Crumb(Str(Tools), Str(Tools)),
      Crumb(Str(Acme), Str(<<"a", "c", "m", "e">>))>>

\* trails no crumb of which survives the filter: the home crumb alone, and
\* the home crumb followed by the product's own crumb
HomeTrail == <<Crumb(Str(Home), Str(<<"h", "o", "m", "e">>))>>

PairTrail ==
    <<Crumb(Str(Home), Str(Home)),
      Crumb(Str(Acme), Str(Acme))>>

DetailResp(ok, crumbs_raise, crumbs, has_product, product) ==
    [ok |-> ok, crumbs_raise |-> crumbs_raise, crumbs |-> crumbs,
     has_product |-> has_product, product |-> product]

NoResp == DetailResp(FALSE, FALSE, <<>>, FALSE, BadNode)

DetailResponses ==
    {DetailResp(FALSE, FALSE, <<>>, FALSE, DetailNode),
     DetailResp(TRUE, TRUE, <<>>, FALSE, DetailNode),
     DetailResp(TRUE, FALSE, HomeTrail, FALSE, DetailNode),
     DetailResp(TRUE, FALSE, FullTrail, TRUE, DetailNode),
     DetailResp(TRUE, FALSE, <<>>, TRUE, DetailNode),
     DetailResp(TRUE, FALSE, FullTrail, TRUE, BadNode),
     DetailResp(TRUE, FALSE, PairTrail, FALSE, DetailNode)}

EnrichProduct(ncat, cid, img, marca, sku, precio) ==
    [id |-> PyNone, sku_id |-> sku, product_id |-> PyNone,
     nombre_producto |-> Str(<<"x">>), marca |-> marca,
     categoria_comerciante_id |-> PyNone, categoria_id |-> cid,
     nombre_categoria |-> ncat, unidad |-> PyNone, precio |-> precio,
     tipo_precio |-> PyNone, imagen |-> img,
     url_producto |-> Str(BaseUrl \o <<"/", "t", "/", "A", "c", "m", "e">>),
     categorias |-> <<>>]

\* the products handed to _enrich_from_detail: nothing known, everything known,
\* and str fields that are empty
EnrichProducts ==
    {EnrichProduct(PyNone, PyNone, PyNone, PyNone, PyNone, PyNone),
     EnrichProduct(Str(<<"P">>), Str(<<"c">>), Str(<<"j">>), Str(Acme), Str(<<"1">>), Num(<<"5">>)),
     EnrichProduct(Str(<<>>), Str(<<>>), Str(<<>>), Str(<<>>), Str(<<>>), Num(<<"0">>))}

VtexItem(itemId) ==
    [itemId |-> itemId, imageUrl |-> PyNone, Price |-> Num(<<"5">>), unit |-> PyNone]

VtexProduct(productId, items) ==
    [productId |-> productId, brand |-> Str(Acme), productName |-> Str(<<"x">>),
     linkText |-> Str(<<"a">>), categoryId |-> Str(<<"1">>),
     categoryName |-> Str(<<"c">>), items |-> items]

\* payload entries: one SKU; a SKU met before and a SKU without itemId; no SKU
VtexEntries ==
    {VtexProduct(Str(<<"1">>), <<VtexItem(Str(<<"s">>))>>),
     VtexProduct(Str(<<"2">>), <<VtexItem(Str(<<"s">>)), VtexItem(PyNone)>>),
     VtexProduct(Str(<<"3">>), <<>>)}

\* the decimal digits of a natural number
DigitChar(d) == <<"0", "1", "2", "3", "4", "5", "6", "7", "8", "9">>[d + 1]

RECURSIVE Digits(_)
Digits(k) == IF k < 10 THEN <<DigitChar(k)>> ELSE Digits(k \div 10) \o <<DigitChar(k % 10)>>

\* the catalog behind the search endpoint: product number k has one SKU, "A1"
\* for product 0, "A2" for product 1, ...
SkuName(k) == <<"A">> \o Digits(k + 1)

DeepEntry(k) == VtexProduct(Str(Digits(k)), <<VtexItem(Str(SkuName(k)))>>)

\* sizes of the catalog the unfiltered search exposes: a small one, one item
\* short of the threshold, the threshold, and more
DeepCatalogs == {3, CapThreshold - 1, CapThreshold, CapThreshold + 20}

\* the qs of a deep scrape: nothing given, or a page_size and an fq given
DeepQueries ==
    {[page_size |-> 0, fq |-> PyNone],
     [page_size |-> 50, fq |-> Str(<<"C", ":", "/", "9", "/">>)]}

FacetNode(Id, Children) ==
    [Id |-> Id, id |-> PyNone, Name |-> Str(<<"n">>), name |-> PyNone,
     Link |-> PyNone, link |-> PyNone, Children |-> Children, children |-> <<>>]

\* the same node under the lower-case spelling of the keys
LowerNode(Id, Children) ==
    [Id |-> PyNone, id |-> Id, Name |-> PyNone, name |-> Str(<<"n">>),
     Link |-> PyNone, link |-> Str(<<"/", "l">>), Children |-> <<>>, children |-> Children]

\* CategoriesTrees: none, a flat one, and a nested one with a leaf without Id
FacetTrees ==
    {<<>>,
     <<FacetNode(Num(<<"1">>), <<>>), FacetNode(Num(<<"2">>), <<>>)>>,
     <<FacetNode(Num(<<"7">>),
                 <<FacetNode(Num(<<"1">>), <<>>),
                   LowerNode(Num(<<"8">>), <<LowerNode(Num(<<"2">>), <<>>)>>)>>),
       FacetNode(PyNone, <<>>),
       FacetNode(Str(<<"3">>), <<>>)>>}

FacetResponses ==
    {[status |-> 500, trees |-> <<>>]} \cup {[status |-> 200, trees |-> t] : t \in FacetTrees}

\* the products the origin lists under a category filter: leaf 1 holds
\* product 0, which the unfiltered search shows too, and a hidden one; leaf 2
\* holds the same hidden one and another
LeafItems(fq) ==
    IF fq = ShardFq([id |-> Str(<<"1">>)]) THEN <<0, 5000>>
    ELSE IF fq = ShardFq([id |-> Str(<<"2">>)]) THEN <<5000, 5001>>
    ELSE <<>>

\* the products that match the params of the search in progress
DeepItems == IF de_pc = "global" THEN [k \in 1..de_catalog |-> k - 1] ELSE LeafItems(vs_fq)

\* the entries number _from to _to of the matching products
CatalogWindow(items, from, to) ==
    [j \in 1..((IF to + 1 < Len(items) THEN to + 1 ELSE Len(items)) - from) |->
        DeepEntry(items[from + j])]

\* what the origin may answer to a window of a search of a deep scrape
DeepResponses ==
    {[status |-> 200, payload |-> CatalogWindow(DeepItems, vs_start, vs_start + vs_size - 1)],
     [status |-> 416, payload |-> <<>>],
     [status |-> 500, payload |-> <<>>]}

\* what the origin may answer to a window of a search called on its own
VtexResponses(size) ==
    {[status |-> st, payload |-> <<>>] : st \in {400, 416, 500}}
        \cup {[status |-> 200, payload |-> pl] : pl \in SeqsUpTo(VtexEntries, size)}

\* what the origin may answer to the request in flight
Answers == IF op = "deep" THEN DeepResponses ELSE VtexResponses(vs_size)

-----------------------------------------------------------------------------
(* app/storage/postgresql.py: PgProductRepository.save_many, lines 73-119,  *)
(* and app/domain/repositories.py: InMemoryProductRepository, lines 11-19   *)

\* COALESCE(a, b)
Coalesce(a, b) == IF a # PyNone THEN a ELSE b

\* the values bound to $1..$12 for p, by column (lines 107-118); whole prices
\* pass Decimal and ::numeric::money unchanged
PgRow(p) ==
    [sku_id |-> p.sku_id, product_id |-> p.product_id,
     nombre_producto |-> p.nombre_producto, marca |-> p.marca,
     categoria_comerciante |-> p.categoria_comerciante_id,
     categoria_id |-> p.categoria_id, nombre_categoria |-> p.nombre_categoria,
     unidad |-> p.unidad, precio |-> p.precio, tipo_precio |-> p.tipo_precio,
     imagen |-> IF Truthy(p.imagen) THEN PyStr(p.imagen) ELSE PyNone,
     url_producto |-> PyStr(p.url_producto)]

\* ON CONFLICT (sku_id) DO UPDATE SET ..., lines 87-98
PgMerge(stored, excluded) ==
    [c \in DOMAIN stored |->
        IF c = "sku_id" THEN stored[c]
        ELSE IF c = "nombre_producto" THEN excluded[c]
        ELSE Coalesce(excluded[c], stored[c])]

\* one execution of the INSERT ... ON CONFLICT statement
PgUpsert(rows, row) ==
    IF \E r \in rows : r.sku_id = row.sku_id
    THEN {IF r.sku_id = row.sku_id THEN PgMerge(r, row) ELSE r : r \in rows}
    ELSE rows \cup {row}

\* lines 103-119: the loop over products
RECURSIVE PgExecuteAll(_, _)
PgExecuteAll(rows, products) ==
    IF products = <<>> THEN rows
    ELSE PgExecuteAll(PgUpsert(rows, PgRow(Head(products))), Tail(products))

\* save_many raises when the database fails or a row breaks PRIMARY KEY /
\* NOT NULL (lines 50-61); the transaction of line 102 then rolls back
PgSaveRaises(products, db_ok) ==
    /\ products # <<>>
    /\ \/ ~db_ok
       \/ \E i \in 1..Len(products) :
            PgRow(products[i]).sku_id = PyNone \/ PgRow(products[i]).nombre_producto = PyNone

\* the identity of a product: its sku_id, or its url when it has none
IdentityKey(p) == IF p.sku_id # PyNone THEN p.sku_id ELSE PyStr(p.url_producto)

-----------------------------------------------------------------------------
(* app/domain/repositories.py: InMemoryCategoryRepository, lines 32-66, and *)
(* app/storage/sqlite.py: SQLiteCategoryRepository.ensure_path, 225-278     *)

\* app/utils/text.py, lines 21-28.  The characters "!" "." ":" "/" stand for
\* what [^\w\s-] removes; lines 26-27 together turn every run of blanks and
\* dashes into one dash
slugify(s) ==
    IF ~Truthy(s) THEN PyNone
    ELSE LET kept == SelectSeq(Lower(Strip(s.v)), LAMBDA c : c \notin {"!", ".", ":", "/"})
             blank == [i \in 1..Len(kept) |-> IF kept[i] = "-" THEN " " ELSE kept[i]]
             core == Strip(CollapseWs(blank))
         IN  IF core = <<>> THEN PyNone
             ELSE Str([i \in 1..Len(core) |-> IF core[i] = " " THEN "-" ELSE core[i]])

\* an id counter that does not advance
NextAutoIdStuck(id) == id

\* self._auto_id += 1 (repositories.py 54); AUTOINCREMENT (sqlite.py 109)
NextAutoId(id) == id + 1

\* one turn of the loop over crumbs (repositories.py 42-61, sqlite.py 244-275)
\* on st = [rows, auto_id, out]; `out` takes the Category as it is at the append
EnsureCrumb(st, c) ==
    LET name == Strip(PyOr(c.name, Str(<<>>)).v)
        slug == PyOr(PyOr(c.slug, slugify(Str(name))), Str(<<>>))
        at == {k \in 1..Len(st.rows) : st.rows[k].slug = slug}
        k == CHOOSE k \in at : TRUE
        new == [id |-> st.auto_id, name |-> Str(name), slug |-> slug, url |-> c.url]
        upd == [st.rows[k] EXCEPT
                  !.name = IF name # <<>> /\ @ # Str(name) THEN Str(name) ELSE @,
                  !.url = IF Truthy(c.url) /\ ~Truthy(@) THEN c.url ELSE @]
    IN  IF slug = Str(<<>>) THEN st
        ELSE IF at = {}
        THEN [rows |-> Append(st.rows, new), auto_id |-> NextAutoId(st.auto_id),
              out |-> Append(st.out, new)]
        ELSE [rows |-> [st.rows EXCEPT ![k] = upd], auto_id |-> st.auto_id,
              out |-> Append(st.out, st.rows[k])]

RECURSIVE EnsureCrumbs(_, _)
EnsureCrumbs(st, crumbs) ==
    IF crumbs = <<>> THEN st ELSE EnsureCrumbs(EnsureCrumb(st, Head(crumbs)), Tail(crumbs))

\* what ensure_path returns: the in-memory repository returns the stored
\* objects themselves, the SQLite one the Category built at the append
EnsureOut(kind, st) ==
    IF kind = "cat_sqlite" THEN st.out
    ELSE [i \in 1..Len(st.out) |->
            st.rows[CHOOSE k \in 1..Len(st.rows) : st.rows[k].slug = st.out[i].slug]]

-----------------------------------------------------------------------------
(* Initial state: the service is built and no call is in progress *)

Init ==
    /\ op = "idle"
    /\ sa_pc = "idle" /\ sa_max_pages = 0 /\ sa_enrich = FALSE
    /\ page = 1 /\ seen = {} /\ collected = <<>>
    /\ sa_requested = <<>> /\ sa_served = <<>> /\ sa_delays = 0 /\ sa_inflight = 0
    /\ sa_saved = <<>>
    /\ en_pc = "idle" /\ en_caller = "direct" /\ en_limit = 1 /\ sem = 1
    /\ en_products = <<>> /\ en_pre = <<>> /\ en_task = <<>> /\ en_resp = <<>>
    /\ vs_pc = "idle" /\ vs_mode = "rest" /\ vs_size = 1 /\ vs_start = 0
    /\ vs_seen = {} /\ vs_collected = <<>> /\ vs_requests = <<>> /\ vs_parsed = <<>>
    /\ vs_fq = PyNone /\ vs_inflight = 0 /\ vs_served = <<>> /\ vs_last = <<>>
    /\ de_pc = "idle" /\ de_qs = [page_size |-> 0, fq |-> PyNone] /\ de_catalog = 0
    /\ de_global = <<>> /\ de_tree = <<>> /\ de_leaves = <<>> /\ de_leaf = 0
    /\ de_seen = {} /\ de_collected = <<>> /\ de_facets = 0 /\ de_facet_status = 0 /\ de_requests = <<>>
    /\ de_result = <<>> /\ de_shards = <<>>
    /\ st_kind = "none" /\ st_calls = 0 /\ pg_rows = {} /\ mem_items = <<>>
    /\ st_keys = {} /\ st_last = [arg |-> <<>>, raised |-> FALSE, again |-> FALSE]
    /\ cat_rows = <<>> /\ cat_auto_id = 1 /\ cat_out = <<>>

-----------------------------------------------------------------------------
(* scrape_all, lines 114-144 *)

ListingResponses == {[ok |-> FALSE, html |-> <<>>]} \cup {[ok |-> TRUE, html |-> h] : h \in ListingPages}

\* line 120: settings.MAX_PAGES and page > settings.MAX_PAGES
MaxPagesReached(maxPages, pg) == maxPages # 0 /\ pg > maxPages

\* a crawl that starts at the second page
FirstPageTwo == 1 + 1

\* line 115: page = 1
FirstPage == 1

\* a client that hands back an empty body instead of raising
get_text_swallows(resp) == FALSE

\* HttpClient.get_text, client.py 41-44: client.get or raise_for_status raises
get_text_raises(resp) == ~resp.ok

StartScrapeAll(maxPages, enrich) ==
    /\ op = "idle"
    /\ op' = "scrape_all"
    /\ sa_pc' = "loop"
    /\ sa_max_pages' = maxPages
    /\ sa_enrich' = enrich
    /\ page' = FirstPage
    /\ seen' = {}
    /\ collected' = <<>>
    /\ UNCHANGED <<sa_requested, sa_served, sa_delays, sa_inflight, sa_saved,
                   en_vars, vs_vars, de_vars, st_vars>>

\* the listing has an end: from page MaxPage on the origin serves no items
ListingServed(pg, resp) == pg < MaxPage \/ ~resp.ok \/ resp.html = <<>>

\* lines 120-123 and 40-41: the MAX_PAGES test, then the request of the
\* page is sent and the coroutine awaits the answer
ScrapeAllSend ==
    /\ op = "scrape_all"
    /\ sa_pc = "loop"
    /\ IF MaxPagesReached(sa_max_pages, page)
       THEN /\ sa_pc' = "after_loop"
            /\ UNCHANGED <<sa_requested, sa_inflight>>
       ELSE /\ sa_pc' = "await"
            /\ sa_requested' = Append(sa_requested, page)
            /\ sa_inflight' = sa_inflight + 1
    /\ UNCHANGED <<op, sa_max_pages, sa_enrich, page, seen, collected, sa_served, sa_delays,
                   sa_saved, en_vars, vs_vars, de_vars, st_vars>>

\* the rest of the turn of the while loop: lines 41-66 and 123-138, the sleep
\* included
ScrapeAllPage(resp) ==
    /\ op = "scrape_all"
    /\ sa_pc = "await"
    /\ ListingServed(page, resp)
    /\ sa_served' = Append(sa_served, resp)
    /\ sa_inflight' = sa_inflight - 1
    /\ IF get_text_raises(resp)
       THEN /\ sa_pc' = "raised"
            /\ UNCHANGED <<page, seen, collected, sa_delays>>
       ELSE IF _fetch_list_page_raises(resp.html)
       THEN /\ sa_pc' = "raised"
            /\ UNCHANGED <<page, seen, collected, sa_delays>>
       ELSE IF _fetch_list_page(resp.html) = <<>>
       THEN /\ sa_pc' = "after_loop"
            /\ UNCHANGED <<page, seen, collected, sa_delays>>
       ELSE /\ collected' = collected \o NewItems(_fetch_list_page(resp.html), seen)
            /\ seen' = MarkSeen(_fetch_list_page(resp.html), seen)
            /\ page' = page + 1
            /\ sa_delays' = sa_delays + 1
            /\ sa_pc' = "loop"
    /\ UNCHANGED <<op, sa_max_pages, sa_enrich, sa_requested, sa_saved,
                   en_vars, vs_vars, de_vars, st_vars>>

\* lines 140-141: the call of _enrich_from_detail, or straight on to the save
ScrapeAllAfterLoop(limit) ==
    /\ op = "scrape_all"
    /\ sa_pc = "after_loop"
    /\ IF sa_enrich /\ collected # <<>>
       THEN /\ sa_pc' = "enrich"
            /\ en_pc' = "running"
            /\ en_caller' = "scrape_all"
            /\ en_limit' = limit
            /\ sem' = limit
            /\ en_products' = collected
            /\ en_pre' = collected
            /\ en_task' = [i \in 1..Len(collected) |-> "pending"]
            /\ en_resp' = [i \in 1..Len(collected) |-> NoResp]
       ELSE /\ sa_pc' = "save"
            /\ UNCHANGED en_vars
    /\ UNCHANGED <<op, sa_max_pages, sa_enrich, page, seen, collected,
                   sa_requested, sa_served, sa_delays, sa_inflight, sa_saved, vs_vars, de_vars, st_vars>>

\* a save that is left out when nothing was collected
SaveManyIfAny(coll) == coll # <<>>

\* line 143: save_many is awaited whatever the list holds
SaveManyCalled(coll) == TRUE

\* lines 143-144; PgProductRepository.save_many returns at once on an empty
\* list and otherwise writes to the database, which may fail
ScrapeAllSave(db_ok) ==
    /\ op = "scrape_all"
    /\ sa_pc = "save"
    /\ sa_saved' = IF SaveManyCalled(collected) THEN Append(sa_saved, collected) ELSE sa_saved
    /\ sa_pc' = IF collected = <<>> \/ db_ok THEN "returned" ELSE "raised"
    /\ UNCHANGED <<op, sa_max_pages, sa_enrich, page, seen, collected,
                   sa_requested, sa_served, sa_delays, sa_inflight, en_vars, vs_vars, de_vars, st_vars>>

-----------------------------------------------------------------------------
(* _enrich_from_detail, lines 72-112 *)

StartEnrich(products, limit) ==
    /\ op = "idle"
    /\ op' = "enrich"
    /\ en_pc' = "running"
    /\ en_caller' = "direct"
    /\ en_limit' = limit
    /\ sem' = limit
    /\ en_products' = products
    /\ en_pre' = products
    /\ en_task' = [i \in 1..Len(products) |-> "pending"]
    /\ en_resp' = [i \in 1..Len(products) |-> NoResp]
    /\ UNCHANGED <<sa_vars, vs_vars, de_vars, st_vars>>

\* line 77: task i enters `async with sem` and goes on to await get_text
Admit(i) ==
    /\ en_pc \in {"running", "raised"}
    /\ en_task[i] = "pending"
    /\ SemCanAcquire(sem)
    /\ sem' = sem - 1
    /\ en_task' = [en_task EXCEPT ![i] = "inflight"]
    /\ UNCHANGED <<op, sa_vars, vs_vars, de_vars, en_pc, en_caller, en_limit, en_products, en_pre, en_resp, st_vars>>

\* lines 78-110: get_text answers task i, the rest of the try block runs
\* without awaiting, the semaphore is released on the way out
Complete(i, resp) ==
    /\ en_pc \in {"running", "raised"}
    /\ en_task[i] = "inflight"
    /\ en_products' = [en_products EXCEPT ![i] = WorkResult(en_products[i], resp)]
    /\ en_resp' = [en_resp EXCEPT ![i] = resp]
    /\ sem' = SemRelease(sem, WorkException(resp))
    /\ en_task' = [en_task EXCEPT ![i] =
                     IF WorkException(resp) = "none" THEN "done"
                     ELSE IF ExceptCatches(WorkException(resp)) THEN "failed"
                     ELSE "raised"]
    /\ UNCHANGED <<op, sa_vars, vs_vars, de_vars, en_pc, en_caller, en_limit, en_pre, st_vars>>

GatherEnds(tasks) == GatherRaises(tasks) \/ GatherComplete(tasks)

\* line 112: the await of asyncio.gather ends; the Products of the caller's
\* list are the objects the tasks worked on
EnrichReturn ==
    /\ en_pc = "running"
    /\ GatherEnds(en_task)
    /\ en_pc' = IF GatherRaises(en_task) THEN "raised" ELSE "returned"
    /\ sa_pc' = IF en_caller # "scrape_all" THEN sa_pc
                ELSE IF GatherRaises(en_task) THEN "raised" ELSE "save"
    /\ collected' = IF en_caller = "scrape_all" THEN en_products ELSE collected
    /\ UNCHANGED <<op, sa_max_pages, sa_enrich, page, seen, sa_requested,
                   sa_served, sa_delays, sa_inflight, sa_saved, vs_vars, de_vars,
                   en_caller, en_limit, sem, en_products, en_pre, en_task, en_resp, st_vars>>

-----------------------------------------------------------------------------
(* scrape_vtex_rest, lines 146-212, and _vtex_windowed_search, lines 247-285 *)

\* the catalog has an end: after MaxWindows requests no full window is served
WindowServed(resp) ==
    Len(vs_requests) < MaxWindows \/ resp.status # 200 \/ Len(resp.payload) < vs_size

\* lines 254-257 (165-170 in scrape_vtex_rest): the locals of a search that starts
CallSearch(fq, size) ==
    /\ vs_pc' = "loop"
    /\ vs_fq' = fq
    /\ vs_size' = size
    /\ vs_start' = 0
    /\ vs_seen' = {}
    /\ vs_collected' = <<>>
    /\ vs_requests' = <<>>
    /\ vs_parsed' = <<>>
    /\ vs_served' = <<>>
    /\ vs_last' = <<>>
    /\ UNCHANGED vs_inflight

StartSearch(mode, size) ==
    /\ op = "idle"
    /\ op' = mode
    /\ vs_mode' = mode
    /\ CallSearch(PyNone, size)
    /\ UNCHANGED <<sa_vars, en_vars, de_vars, st_vars>>

\* lines 260-264 (173-177 in scrape_vtex_rest): the request of the window at
\* `start` is sent and the coroutine awaits the answer
SendWindow ==
    /\ op \in {"rest", "windowed", "deep"}
    /\ vs_pc = "loop"
    /\ vs_requests' = Append(vs_requests, WindowParams(vs_fq, vs_start, vs_size))
    /\ vs_inflight' = vs_inflight + 1
    /\ vs_pc' = "await"
    /\ UNCHANGED <<op, vs_mode, vs_size, vs_start, vs_seen, vs_collected, vs_parsed,
                   vs_fq, vs_served, vs_last, sa_vars, en_vars, de_vars, st_vars>>

\* the answer is taken off the wire
AnswerTaken(resp) ==
    /\ vs_inflight' = vs_inflight - 1
    /\ vs_served' = Append(vs_served, [status |-> resp.status, count |-> Len(resp.payload)])
    /\ vs_last' = resp.payload

\* the rest of a turn of the while loop of scrape_vtex_rest: lines 178-210
RestWindow(resp) ==
    /\ op = "rest"
    /\ vs_pc = "await"
    /\ WindowServed(resp)
    /\ AnswerTaken(resp)
    /\ IF IsBadRange(resp.status)
       THEN /\ vs_pc' = "returned"
            /\ UNCHANGED <<vs_start, vs_seen, vs_collected, vs_parsed>>
       ELSE IF raise_for_status(resp.status)
       THEN /\ vs_pc' = "raised"
            /\ UNCHANGED <<vs_start, vs_seen, vs_collected, vs_parsed>>
       ELSE IF Len(resp.payload) = 0
       THEN /\ vs_pc' = "returned"
            /\ UNCHANGED <<vs_start, vs_seen, vs_collected, vs_parsed>>
       ELSE IF parse_vtex_rest_raises(resp.payload)
       THEN /\ vs_pc' = "raised"
            /\ UNCHANGED <<vs_start, vs_seen, vs_collected, vs_parsed>>
       ELSE /\ vs_parsed' = vs_parsed \o parse_vtex_rest(resp.payload)
            /\ vs_seen' = RestDedup(parse_vtex_rest(resp.payload), vs_seen, <<>>).seen
            /\ vs_collected' = vs_collected
                    \o RestDedup(parse_vtex_rest(resp.payload), vs_seen, <<>>).collected
            /\ IF ShortPage(resp.payload, vs_size)
               THEN vs_pc' = "returned" /\ UNCHANGED vs_start
               ELSE vs_pc' = "loop" /\ vs_start' = NextStart(vs_start, vs_size)
    /\ UNCHANGED <<op, vs_mode, vs_size, vs_requests, vs_fq, sa_vars, en_vars, de_vars, st_vars>>

\* the rest of a turn of the while loop of _vtex_windowed_search: lines 265-283
WindowTurn(resp) ==
    /\ vs_pc = "await"
    /\ AnswerTaken(resp)
    /\ IF IsBadRange(resp.status)
       THEN /\ vs_pc' = "returned"
            /\ UNCHANGED <<vs_start, vs_seen, vs_collected, vs_parsed>>
       ELSE IF raise_for_status(resp.status)
       THEN /\ vs_pc' = "raised"
            /\ UNCHANGED <<vs_start, vs_seen, vs_collected, vs_parsed>>
       ELSE IF resp.payload = <<>>
       THEN /\ vs_pc' = "returned"
            /\ UNCHANGED <<vs_start, vs_seen, vs_collected, vs_parsed>>
       ELSE IF parse_vtex_rest_raises(resp.payload)
       THEN /\ vs_pc' = "raised"
            /\ UNCHANGED <<vs_start, vs_seen, vs_collected, vs_parsed>>
       ELSE /\ vs_parsed' = vs_parsed \o parse_vtex_rest(resp.payload)
            /\ vs_seen' = WindowDedup(parse_vtex_rest(resp.payload), vs_seen, vs_collected).seen
            /\ vs_collected' =
                    WindowDedup(parse_vtex_rest(resp.payload), vs_seen, vs_collected).collected
            /\ IF ShortPage(resp.payload, vs_size)
               THEN vs_pc' = "returned" /\ UNCHANGED vs_start
               ELSE vs_pc' = "loop" /\ vs_start' = NextStart(vs_start, vs_size)
    /\ UNCHANGED <<op, vs_mode, vs_size, vs_requests, vs_fq, sa_vars, en_vars, de_vars, st_vars>>

\* _vtex_windowed_search called on its own
SearchWindow(resp) ==
    /\ op = "windowed"
    /\ WindowServed(resp)
    /\ WindowTurn(resp)

-----------------------------------------------------------------------------
(* scrape_vtex_rest_deep, lines 288-317 *)

\* lines 289-298: the global pass starts
StartDeep(qs, catalog) ==
    /\ op = "idle"
    /\ op' = "deep"
    /\ de_pc' = "global"
    /\ de_qs' = qs
    /\ de_catalog' = catalog
    /\ vs_mode' = "windowed"
    /\ CallSearch(BaseParamsFq(qs), DeepPageSize(qs))
    /\ UNCHANGED <<sa_vars, en_vars, de_global, de_tree, de_leaves, de_leaf, de_seen,
                   de_collected, de_facets, de_facet_status, de_requests, de_result, de_shards,
                   st_vars>>

\* a turn of the loop of the search that scrape_vtex_rest_deep awaits
DeepWindow(resp) ==
    /\ op = "deep"
    /\ de_pc \in {"global", "shard"}
    /\ WindowTurn(resp)

\* an await that takes a failed search for one that found nothing
AwaitSwallows(pc) == FALSE

\* lines 298 and 313: the exception of the awaited search leaves the await
AwaitRaises(pc) == pc = "raised"

\* lines 298-303: the global pass is over; the result is returned, or the
\* request for the facet tree is sent
DeepGlobalReturn ==
    /\ op = "deep"
    /\ de_pc = "global"
    /\ vs_pc \in {"returned", "raised"}
    /\ IF AwaitRaises(vs_pc)
       THEN /\ de_pc' = "raised"
            /\ UNCHANGED <<de_global, de_facets, de_requests, de_result>>
       ELSE /\ de_global' = vs_collected
            /\ de_requests' = de_requests \o vs_requests
            /\ IF BelowCap(vs_collected)
               THEN /\ de_pc' = "returned"
                    /\ de_result' = vs_collected
                    /\ UNCHANGED de_facets
               ELSE /\ de_pc' = "facets"
                    /\ de_facets' = de_facets + 1
                    /\ UNCHANGED de_result
    /\ UNCHANGED <<op, sa_vars, en_vars, vs_vars, de_qs, de_catalog, de_tree, de_leaves,
                   de_leaf, de_seen, de_collected, de_shards, de_facet_status, st_vars>>

\* lines 224-244 and 303-310: the facets answer; the leaves are listed and
\* the search of the first shard starts
DeepFacets(resp) ==
    /\ op = "deep"
    /\ de_pc = "facets"
    /\ IF raise_for_status(resp.status)
       THEN /\ de_pc' = "raised"
            /\ UNCHANGED <<vs_vars, de_tree, de_leaves, de_leaf, de_seen, de_collected, de_result>>
       ELSE /\ de_tree' = resp.trees
            /\ de_leaves' = walk(resp.trees)
            /\ de_seen' = GlobalSeen(de_global)
            /\ de_collected' = de_global
            /\ IF walk(resp.trees) = <<>>
               THEN /\ de_pc' = "returned"
                    /\ de_result' = de_global
                    /\ UNCHANGED <<vs_vars, de_leaf>>
               ELSE /\ de_pc' = "shard"
                    /\ de_leaf' = 1
                    /\ CallSearch(ShardFq(walk(resp.trees)[1]), vs_size)
                    /\ UNCHANGED <<vs_mode, de_result>>
    /\ de_facet_status' = resp.status
    /\ UNCHANGED <<op, sa_vars, en_vars, de_qs, de_catalog, de_global, de_facets, de_requests,
                   de_shards, st_vars>>

\* lines 310-317: a shard's search is over; its rows are merged and the next
\* shard starts, or the merged list is returned
DeepShardReturn ==
    /\ op = "deep"
    /\ de_pc = "shard"
    /\ vs_pc \in {"returned", "raised"}
    /\ IF AwaitRaises(vs_pc)
       THEN /\ de_pc' = "raised"
            /\ UNCHANGED <<vs_vars, de_leaf, de_seen, de_collected, de_requests, de_result,
                           de_shards>>
       ELSE /\ de_shards' = Append(de_shards, [requests |-> vs_requests, results |-> vs_collected])
            /\ de_seen' = ShardMerge(vs_collected, de_seen, de_collected).seen
            /\ de_collected' = ShardMerge(vs_collected, de_seen, de_collected).collected
            /\ de_requests' = de_requests \o vs_requests
            /\ IF de_leaf < Len(de_leaves)
               THEN /\ de_leaf' = de_leaf + 1
                    /\ CallSearch(ShardFq(de_leaves[de_leaf + 1]), vs_size)
                    /\ UNCHANGED <<vs_mode, de_pc, de_result>>
               ELSE /\ de_pc' = "returned"
                    /\ de_result' = ShardMerge(vs_collected, de_seen, de_collected).collected
                    /\ UNCHANGED <<vs_vars, de_leaf>>
    /\ UNCHANGED <<op, sa_vars, en_vars, de_qs, de_catalog, de_global, de_tree, de_leaves,
                   de_facets, de_facet_status, st_vars>>

-----------------------------------------------------------------------------

-----------------------------------------------------------------------------
(* The repositories: PgProductRepository, InMemoryProductRepository,        *)
(* InMemoryCategoryRepository / SQLiteCategoryRepository                    *)

\* the lists handed to save_many: products with sku "1" (twice, with different
\* fields known), with sku "2", and without sku
StoreLists ==
    LET a1 == EnrichProduct(PyNone, PyNone, Str(<<"j">>), Str(Acme), Str(<<"1">>), Num(<<"5">>))
        a2 == EnrichProduct(PyNone, Str(<<"c">>), PyNone, Str(Other), Str(<<"1">>), PyNone)
        b  == EnrichProduct(PyNone, PyNone, PyNone, PyNone, Str(<<"2">>), Num(<<"0">>))
        n  == EnrichProduct(PyNone, PyNone, PyNone, PyNone, PyNone, PyNone)
    IN  {<<>>, <<a1>>, <<a2>>, <<b>>, <<a1, b>>, <<a1, a2>>, <<b, n>>}

\* the crumb paths handed to ensure_path: slugs given and slugs made from the
\* name, one slug under two names, a crumb that cannot be identified
CrumbPaths ==
    LET tools  == [name |-> Str(Tools), slug |-> Str(Tools), url |-> PyNone]
        acme   == [name |-> Str(<<" ", "A", "c", "m", "e", "!">>), slug |-> PyNone, url |-> PyNone]
        acme2  == [name |-> Str(Home), slug |-> Str(<<"a", "c", "m", "e">>),
                   url |-> Str(BaseUrl \o <<"/", "a", "c", "m", "e">>)]
        spaced == [name |-> Str(<<"A", " ", "-", " ", "T">>), slug |-> PyNone, url |-> PyNone]
        blank  == [name |-> PyNone, slug |-> PyNone, url |-> PyNone]
    IN  {<<>>, <<tools>>, <<tools, acme>>, <<acme2, tools>>, <<blank, spaced>>, <<acme, acme2>>}

\* a call reaches a repository: calls are made one after the other, MaxCalls
\* of them, all to the same repository
RepoCall(kind) ==
    /\ op \in {"idle", "store"}
    /\ st_kind \in {"none", kind}
    /\ st_calls < MaxCalls
    /\ op' = "store"
    /\ st_kind' = kind
    /\ st_calls' = st_calls + 1

\* PgProductRepository.save_many, lines 73-119
PgSaveMany(products, db_ok) ==
    /\ RepoCall("pg")
    /\ st_last' = [arg |-> products, raised |-> PgSaveRaises(products, db_ok),
                   again |-> st_calls > 0 /\ st_last.arg = products]
    /\ pg_rows' = IF PgSaveRaises(products, db_ok) THEN pg_rows
                  ELSE PgExecuteAll(pg_rows, products)
    /\ st_keys' = IF PgSaveRaises(products, db_ok) THEN st_keys
                  ELSE st_keys \cup {IdentityKey(products[i]) : i \in 1..Len(products)}
    /\ UNCHANGED <<mem_items, cat_rows, cat_auto_id, cat_out, sa_vars, en_vars, vs_vars, de_vars>>

\* InMemoryProductRepository.save_many, lines 15-16
MemSaveMany(products) ==
    /\ RepoCall("memory")
    /\ st_last' = [arg |-> products, raised |-> FALSE,
                   again |-> st_calls > 0 /\ st_last.arg = products]
    /\ mem_items' = products
    /\ st_keys' = st_keys \cup {IdentityKey(products[i]) : i \in 1..Len(products)}
    /\ UNCHANGED <<pg_rows, cat_rows, cat_auto_id, cat_out, sa_vars, en_vars, vs_vars, de_vars>>

\* ensure_path of either category repository
EnsurePath(kind, crumbs) ==
    /\ RepoCall(kind)
    /\ st_last' = [arg |-> crumbs, raised |-> FALSE,
                   again |-> st_calls > 0 /\ st_last.arg = crumbs]
    /\ cat_rows' = EnsureCrumbs([rows |-> cat_rows, auto_id |-> cat_auto_id, out |-> <<>>], crumbs).rows
    /\ cat_auto_id' = EnsureCrumbs([rows |-> cat_rows, auto_id |-> cat_auto_id, out |-> <<>>], crumbs).auto_id
    /\ cat_out' = EnsureOut(kind, EnsureCrumbs([rows |-> cat_rows, auto_id |-> cat_auto_id, out |-> <<>>], crumbs))
    /\ UNCHANGED <<pg_rows, mem_items, st_keys, sa_vars, en_vars, vs_vars, de_vars>>

Next ==
    \/ \E maxPages \in 0..MaxPagesCfg, enrich \in BOOLEAN : StartScrapeAll(maxPages, enrich)
    \/ ScrapeAllSend
    \/ \E resp \in ListingResponses : ScrapeAllPage(resp)
    \/ \E limit \in 1..MaxConcurrency : ScrapeAllAfterLoop(limit)
    \/ \E db_ok \in BOOLEAN : ScrapeAllSave(db_ok)
    \/ \E products \in SeqsUpTo(EnrichProducts, MaxProducts), limit \in 1..MaxConcurrency :
            StartEnrich(products, limit)
    \/ \E i \in 1..Len(en_task) : Admit(i)
    \/ \E i \in 1..Len(en_task), resp \in DetailResponses : Complete(i, resp)
    \/ EnrichReturn
    \/ \E mode \in {"rest", "windowed"}, size \in 1..MaxPageSize : StartSearch(mode, size)
    \/ SendWindow
    \/ \E resp \in Answers : RestWindow(resp)
    \/ \E resp \in Answers : SearchWindow(resp)
    \/ \E qs \in DeepQueries, catalog \in DeepCatalogs : StartDeep(qs, catalog)
    \/ \E resp \in Answers : DeepWindow(resp)
    \/ DeepGlobalReturn
    \/ \E resp \in FacetResponses : DeepFacets(resp)
    \/ DeepShardReturn
    \/ \E products \in StoreLists, db_ok \in BOOLEAN : PgSaveMany(products, db_ok)
    \/ \E products \in StoreLists : MemSaveMany(products)
    \/ \E kind \in {"cat_memory", "cat_sqlite"}, crumbs \in CrumbPaths : EnsurePath(kind, crumbs)

Spec == Init /\ [][Next]_vars

\* the event loop runs every task that can run: a task waiting at a free
\* semaphore is admitted, every fetch is answered (get_text returns or raises
\* within the client's timeouts), and the gather resumes when its tasks are over
LiveSpec ==
    /\ Spec
    /\ WF_vars(\E i \in 1..Len(en_task) : Admit(i))
    /\ WF_vars(\E i \in 1..Len(en_task) : \E resp \in DetailResponses : Complete(i, resp))
    /\ WF_vars(EnrichReturn)

-----------------------------------------------------------------------------
(* Claims about scrape_all (PaginationCrawler) *)

\* the absolute url of the item a listing node stands for
NodeUrl(node) == PyStr(ListingUrlAbs(_product_from_jsonld(node))).v

RECURSIVE ServedUrls(_)
ServedUrls(resps) ==
    IF resps = <<>> THEN <<>>
    ELSE [i \in 1..Len(Head(resps).html) |-> NodeUrl(Head(resps).html[i])]
         \o ServedUrls(Tail(resps))

\* first occurrences, in order
RECURSIVE Uniq(_)
Uniq(q) ==
    IF q = <<>> THEN <<>>
    ELSE LET r == Uniq(SubSeq(q, 1, Len(q) - 1))
         IN  IF \E i \in 1..Len(r) : r[i] = q[Len(q)] THEN r ELSE Append(r, q[Len(q)])

CollectedUrls == [i \in 1..Len(collected) |-> UrlKey(collected[i])]

Occurrences(q, x) == Cardinality({i \in 1..Len(q) : q[i] = x})

AllFetchesOk == \A k \in 1..Len(sa_served) : sa_served[k].ok

\* scrape_all is over and, if it raised, it did so before the save
CrawlOver ==
    /\ op = "scrape_all"
    /\ sa_pc = "returned" \/ (sa_pc = "raised" /\ sa_saved = <<>>)

\* C1: with every fetch succeeding and no maximum page count, a crawl ends by
\* returning; the last page it requested is the first empty one, page K, and
\* the result is the url-deduplicated union of pages 1..K-1 in page order.
C1_PaginationTermination ==
    (CrawlOver /\ AllFetchesOk /\ sa_max_pages = 0) =>
        /\ sa_pc = "returned"
        /\ sa_served # <<>>
        /\ sa_served[Len(sa_served)].html = <<>>
        /\ \A k \in 1..(Len(sa_served) - 1) : sa_served[k].html # <<>>
        /\ sa_requested = [k \in 1..Len(sa_served) |-> k]
        /\ CollectedUrls = Uniq(ServedUrls(sa_served))

SamePageTwice(resp) ==
    \E i, j \in 1..Len(resp.html) : i # j /\ NodeUrl(resp.html[i]) = NodeUrl(resp.html[j])

\* C2: when a page batch carried the same url_producto twice, the crawl
\* returns a list holding exactly one Product with that url, and a returned
\* list never holds two Products with equal url_producto.
C2_SameBatchDedup ==
    /\ (CrawlOver /\ AllFetchesOk /\ \E k \in 1..Len(sa_served) : SamePageTwice(sa_served[k])) =>
            /\ sa_pc = "returned"
            /\ \A u \in {ServedUrls(sa_served)[i] : i \in 1..Len(ServedUrls(sa_served))} :
                    Occurrences(CollectedUrls, u) = 1
    /\ \A i, j \in 1..Len(collected) : i # j => UrlKey(collected[i]) # UrlKey(collected[j])

\* C3: an item whose url appeared on an earlier page is never appended again,
\* a url served on two pages yields exactly one Product, and every item of
\* every fetched batch is in the seen set after that batch.
C3_CrossPageDedup ==
    /\ \A i, j \in 1..Len(collected) : i # j => UrlKey(collected[i]) # UrlKey(collected[j])
    /\ (op = "scrape_all" /\ AllFetchesOk) =>
            \A i \in 1..Len(ServedUrls(sa_served)) : ServedUrls(sa_served)[i] \in seen
    /\ (CrawlOver /\ AllFetchesOk) =>
            \A u \in {ServedUrls(sa_served)[i] : i \in 1..Len(ServedUrls(sa_served))} :
                Occurrences(CollectedUrls, u) = 1

-----------------------------------------------------------------------------
(* Claims about _enrich_from_detail (BoundedEnricher) *)

InFlight == {i \in 1..Len(en_task) : en_task[i] = "inflight"}

\* C4: at most N detail fetches are in flight, N the concurrency limit
C4_BoundedInFlight == Cardinality(InFlight) <= en_limit

\* the gate is full and a task is held back
C4_Witness ==
    /\ en_pc = "running"
    /\ Cardinality(InFlight) = en_limit
    /\ \E i \in 1..Len(en_task) : en_task[i] = "pending"
    /\ \E i \in 1..Len(en_task) : en_task[i] = "inflight"

\* C5: there is one task per product of the list, and when enrich returns
\* every one of them has finished (none pending, none in flight) and has
\* given its slot back
C5_AllFinishedAtReturn ==
    /\ Len(en_task) = Len(en_products)
    /\ en_pc = "returned" =>
            /\ \A i \in 1..Len(en_products) : en_task[i] \in {"done", "failed"}
            /\ sem = en_limit

\* more products than slots went through the gate, some failing, some not
C5_Witness ==
    /\ en_pc = "returned"
    /\ Len(en_products) > en_limit
    /\ \E i, j \in 1..Len(en_task) : en_task[i] = "done" /\ en_task[j] = "failed"

\* C6: an exception in one product's fetch or parse never escapes enrich and
\* never reaches a sibling: at the return every product whose own fetch and
\* parse raised nothing is enriched from its own page, the others have failed
C6_FailureIsolation ==
    /\ en_pc # "raised"
    /\ \A i \in 1..Len(en_task) : en_task[i] # "raised"
    /\ en_pc = "returned" =>
            \A i \in 1..Len(en_task) :
                IF WorkException(en_resp[i]) = "none"
                THEN /\ en_task[i] = "done"
                     /\ en_products[i] = WorkResult(en_pre[i], en_resp[i])
                     /\ (en_resp[i].crumbs # <<>> /\ en_pre[i].nombre_categoria = PyNone)
                            => en_products[i].nombre_categoria # PyNone
                ELSE en_task[i] = "failed"

\* one product failed in its parse and a sibling was enriched all the same
C6_Witness ==
    /\ en_pc = "returned"
    /\ \E i, j \in 1..Len(en_task) :
            /\ en_task[i] = "failed"
            /\ WorkException(en_resp[i]) \in {"crumbs", "detail"}
            /\ en_task[j] = "done"
            /\ en_pre[j].nombre_categoria = PyNone
            /\ en_products[j].nombre_categoria # PyNone

\* C7: a product whose detail fetch or parse raised keeps every field at its
\* value from before the call
C7_FailedItemUnchanged ==
    \A i \in 1..Len(en_task) :
        en_task[i] \in {"failed", "raised"} => en_products[i] = en_pre[i]

EnrichFields == {"nombre_categoria", "categoria_id", "imagen", "marca", "sku_id", "precio"}

\* C8 as stated: a field that was non-null before enrich holds the same value
\* afterwards
C8_NonNullNeverOverwritten ==
    \A i \in 1..Len(en_products) : \A f \in EnrichFields :
        en_pre[i][f] # PyNone => en_products[i][f] = en_pre[i][f]

\* the field holds a value: a non-empty str, or any precio but None
HoldsValue(f, x) == IF f = "precio" THEN x # PyNone ELSE Truthy(x)

\* C8 amended: a field that held a value before enrich (a non-empty string,
\* or a non-null precio) holds the same value afterwards, whatever the page
C8_ValueNeverOverwritten ==
    \A i \in 1..Len(en_products) : \A f \in EnrichFields :
        HoldsValue(f, en_pre[i][f]) => en_products[i][f] = en_pre[i][f]

\* marca "Acme" met a detail page whose brand is "Other" and stayed "Acme"
C8_Witness ==
    \E i \in 1..Len(en_task) :
        /\ en_task[i] = "done"
        /\ en_pre[i].marca = Str(Acme)
        /\ en_resp[i].has_product
        /\ _product_from_jsonld(en_resp[i].product).brand = Str(Other)
        /\ en_resp[i].crumbs # <<>>
        /\ en_products[i].marca = Str(Acme)
        /\ en_products[i].nombre_categoria = en_pre[i].nombre_categoria

\* C9: after a successful fetch of a page with a Product record, each of
\* imagen, marca, sku_id and precio that was null takes the value the detail
\* extractor produced (sku_id as a string of at most 12 characters)
C9_BackfillFromDetail ==
    \A i \in 1..Len(en_task) :
        (en_task[i] = "done" /\ en_resp[i].has_product) =>
            /\ en_pre[i].imagen = PyNone =>
                    en_products[i].imagen = _product_from_jsonld(en_resp[i].product).image_url
            /\ en_pre[i].marca = PyNone =>
                    en_products[i].marca =
                        truncate(_product_from_jsonld(en_resp[i].product).brand, 64)
            /\ en_pre[i].sku_id = PyNone =>
                    en_products[i].sku_id =
                        coerce_str_id(_product_from_jsonld(en_resp[i].product).sku, 12)
            /\ en_pre[i].precio = PyNone =>
                    en_products[i].precio = _product_from_jsonld(en_resp[i].product).precio

-----------------------------------------------------------------------------
(* Claims about the windowed search (WindowedSearchCrawler) *)

\* C10: a parsed item whose sku_id is null is in the result of the search
C10_NullSkuKept ==
    vs_pc = "returned" =>
        \A i \in 1..Len(vs_parsed) :
            vs_parsed[i].sku_id = PyNone =>
                \E j \in 1..Len(vs_collected) : vs_collected[j] = vs_parsed[i]

\* the sku_id of the rows of a list that have one
Skus(rows) == {rows[i].sku_id : i \in {j \in 1..Len(rows) : Truthy(rows[j].sku_id)}}

\* the rows of the latest answer, and the rows of the windows before it
LastRows == parse_vtex_rest(vs_last)

EarlierRows == SubSeq(vs_parsed, 1, Len(vs_parsed) - Len(LastRows))

\* C11: the list a search collects holds one Product for every sku_id its
\* windows delivered and never two Products with the same sku_id: a row whose
\* sku_id an earlier window returned is dropped
C11_SkuOncePerSearch ==
    /\ Cardinality(Skus(vs_collected)) = Len(vs_collected)
    /\ Skus(vs_parsed) = Skus(vs_collected)
    /\ vs_seen = {x.v : x \in Skus(vs_collected)}

\* a second window brought a sku_id the first one had returned
C11_Witness ==
    /\ op = "windowed"
    /\ vs_pc = "returned"
    /\ Len(vs_served) = 2
    /\ Skus(LastRows) \cap Skus(EarlierRows) # {}
    /\ Len(vs_collected) = 1

\* the answer number k was a success with fewer entries than the window
ShortWindow(k) ==
    /\ ~IsBadRange(vs_served[k].status)
    /\ ~raise_for_status(vs_served[k].status)
    /\ vs_served[k].count < vs_size

\* a row is in the result: as itself when it has no sku_id, else as the one
\* Product of its sku_id
RowIncluded(r) ==
    IF Truthy(r.sku_id) THEN r.sku_id \in Skus(vs_collected)
    ELSE \E j \in 1..Len(vs_collected) : vs_collected[j] = r

\* C12: a successful window with fewer than page_size entries is the last
\* request of the search: the search returns, the rows of that window are in
\* the result and no request follows
C12_ShortPageStop ==
    (op = "windowed" /\ vs_served # <<>> /\ vs_inflight = 0) =>
        /\ \A k \in 1..(Len(vs_served) - 1) : ~ShortWindow(k)
        /\ ShortWindow(Len(vs_served)) =>
                /\ vs_pc = "returned"
                /\ Len(vs_requests) = Len(vs_served)
                /\ \A i \in 1..Len(LastRows) : RowIncluded(LastRows[i])

\* the status of the latest answer
LastStatus == vs_served[Len(vs_served)].status

\* C13: when a window is answered with status 400 or 416 the search ends by
\* returning, and what it returns is the list the earlier windows collected
C13_GracefulEnd ==
    [][(vs_pc = "await" /\ vs_pc' # "await" /\ LastStatus' \in {400, 416}) =>
            /\ vs_pc' = "returned"
            /\ vs_collected' = vs_collected
            /\ vs_requests' = vs_requests]_vars

\* a full window was collected and the next one was answered 416
C13_Witness ==
    /\ op = "windowed"
    /\ vs_pc = "returned"
    /\ Len(vs_served) = 2
    /\ LastStatus = 416
    /\ vs_collected # <<>>

\* a status that is neither a success nor 400 or 416
FatalStatus(st) == st \notin 200..299 /\ st \notin {400, 416}

\* C14: an answer with a non-success status other than 400 and 416 makes the
\* search raise: it is the last answer, no request follows it, and neither the
\* search nor a deep scrape that awaits it returns a list
C14_FatalStatusRaises ==
    \A k \in 1..Len(vs_served) :
        FatalStatus(vs_served[k].status) =>
            /\ k = Len(vs_served)
            /\ Len(vs_requests) = Len(vs_served)
            /\ vs_pc = "raised"
            /\ op = "deep" => (de_pc # "returned" /\ de_result = <<>>)

\* a window had been collected when the next one was answered 500
C14_Witness ==
    /\ op = "windowed"
    /\ vs_pc = "raised"
    /\ Len(vs_served) = 2
    /\ LastStatus = 500
    /\ vs_collected # <<>>

\* the answers so far that were full windows
FullWindows ==
    {k \in 1..Len(vs_served) :
        ~FatalStatus(vs_served[k].status) /\ vs_served[k].status \notin {400, 416}
            /\ vs_served[k].count >= vs_size}

\* C15: the k-th request of a search asks for items (k-1)*W to k*W-1; `start`
\* is W times the number of full windows answered so far, a request is sent
\* only when every earlier one is answered, and at most one is in flight
C15_WindowOffsets ==
    /\ \A k \in 1..Len(vs_requests) :
            /\ vs_requests[k]._from = (k - 1) * vs_size
            /\ vs_requests[k]._to = k * vs_size - 1
    /\ vs_start = vs_size * Cardinality(FullWindows)
    /\ vs_inflight \in {0, 1}
    /\ Len(vs_requests) = Len(vs_served) + vs_inflight

\* the second window of a search is in flight
C15_Witness ==
    /\ op = "windowed"
    /\ Len(vs_requests) = 2
    /\ vs_inflight = 1
    /\ vs_size > 1
    /\ vs_requests[2]._from = vs_size

-----------------------------------------------------------------------------
(* Claims about scrape_vtex_rest_deep (CapAwareShardingStrategy) *)

\* C16: a global pass of fewer than 2400 rows is returned as it is, with no
\* request to the facets endpoint and no shard search; a global pass of 2400
\* rows or more sends the facets request
C16_CapBoundary ==
    op = "deep" =>
        /\ Len(de_global) < CapThreshold =>
                /\ de_facets = 0
                /\ de_pc \notin {"facets", "shard"}
                /\ de_pc = "returned" =>
                        /\ de_result = de_global
                        /\ \A k \in 1..Len(de_requests) : de_requests[k].fq = de_qs.fq
        /\ Len(de_global) >= CapThreshold =>
                /\ de_facets = 1
                /\ de_pc \in {"facets", "shard", "returned", "raised"}

\* a global pass of 2399 rows was returned without sharding
C16_Witness ==
    /\ op = "deep"
    /\ de_pc = "returned"
    /\ Len(de_global) = CapThreshold - 1
    /\ Len(de_result) = CapThreshold - 1
    /\ de_facets = 0

\* the rows of the first n shards, one after the other
RECURSIVE ShardRows(_)
ShardRows(n) == IF n = 0 THEN <<>> ELSE ShardRows(n - 1) \o de_shards[n].results

\* C17: the merged list holds every sku_id of the global pass and of the
\* shards merged so far, each one exactly once, also when a shard returns a
\* sku_id the global pass or an earlier shard had returned
C17_ShardMergeDedup ==
    (op = "deep" /\ de_pc \in {"shard", "returned"} /\ de_facets = 1) =>
        /\ Cardinality(Skus(de_collected)) = Len(de_collected)
        /\ Skus(de_collected) = Skus(de_global) \cup Skus(ShardRows(Len(de_shards)))
        /\ de_seen = {x.v : x \in Skus(de_collected)}
        /\ de_pc = "returned" => de_result = de_collected

\* the global pass and a shard both returned "A1", two shards both returned a
\* sku_id the global pass had not, and the merged list was returned
C17_Witness ==
    /\ op = "deep"
    /\ de_pc = "returned"
    /\ Len(de_shards) >= 2
    /\ Str(SkuName(0)) \in Skus(de_global) \cap Skus(de_shards[1].results)
    /\ Skus(de_shards[1].results) \cap Skus(de_shards[2].results) # {}
    /\ Len(de_result) = Len(de_global) + 2

\* The nodes of a facet tree by their paths: <<2, 1>> is the first child of
\* the second top-level node.
MaxOf(S) == CHOOSE m \in S : \A x \in S : x <= m

RECURSIVE Depth(_)
Depth(nodes) ==
    IF nodes = <<>> THEN 0
    ELSE 1 + MaxOf({Depth(NodeChildren(nodes[i])) : i \in 1..Len(nodes)})

RECURSIVE Fan(_)
Fan(nodes) ==
    MaxOf({Len(nodes)} \cup {Fan(NodeChildren(nodes[i])) : i \in 1..Len(nodes)})

RECURSIVE ValidPath(_, _)
ValidPath(nodes, path) ==
    /\ path[1] <= Len(nodes)
    /\ Len(path) > 1 => ValidPath(NodeChildren(nodes[path[1]]), Tail(path))

RECURSIVE NodeAt(_, _)
NodeAt(nodes, path) ==
    IF Len(path) = 1 THEN nodes[path[1]]
    ELSE NodeAt(NodeChildren(nodes[path[1]]), Tail(path))

TreePaths(tree) ==
    {p \in UNION {[1..d -> 1..Fan(tree)] : d \in 1..Depth(tree)} : ValidPath(tree, p)}

\* the nodes with no children list or an empty one
LeafPaths(tree) == {p \in TreePaths(tree) : NodeChildren(NodeAt(tree, p)) = <<>>}

\* p comes before q in a depth-first left-to-right traversal
Before(p, q) ==
    \E i \in 1..Len(p) :
        /\ i <= Len(q)
        /\ \A j \in 1..(i - 1) : p[j] = q[j]
        /\ p[i] < q[i]

RECURSIVE InOrder(_)
InOrder(S) ==
    IF S = {} THEN <<>>
    ELSE LET first == CHOOSE p \in S : \A q \in S \ {p} : Before(p, q)
         IN  <<first>> \o InOrder(S \ {first})

\* the dicts of the nodes at a set of paths, in traversal order
DictsAt(tree, S) == [k \in 1..Cardinality(S) |-> LeafDict(NodeAt(tree, InOrder(S)[k]))]

\* C19 as stated: the list of leaves is made of every node with no children
\* list or an empty one, and of no other node, in depth-first left-to-right
\* order
C19_AllLeavesCollected == de_leaves = DictsAt(de_tree, LeafPaths(de_tree))

\* the leaves that carry an id
IdLeafPaths(tree) == {p \in LeafPaths(tree) : Truthy(NodeCid(NodeAt(tree, p)))}

\* C19 amended: the list of leaves is made of every node with no children
\* list or an empty one that carries a non-empty Id, in depth-first
\* left-to-right order; a node with children is expanded and not listed, and
\* a leaf without an Id is passed over
C19_LeavesWithIdCollected == de_leaves = DictsAt(de_tree, IdLeafPaths(de_tree))

\* a nested tree was walked: leaves at three depths, one of them without Id
C19_Witness ==
    /\ op = "deep"
    /\ de_pc \in {"shard", "returned"}
    /\ Depth(de_tree) = 3
    /\ Len(de_leaves) = 3
    /\ Cardinality(LeafPaths(de_tree)) = 4
    /\ \E p \in TreePaths(de_tree) : NodeChildren(NodeAt(de_tree, p)) # <<>>

\* the category filter of the node with this id
CategoryFilter(id) == Str(<<"C", ":", "/">> \o id.v \o <<"/">>)

\* the shard searches run so far are those of the first nodes of `leaves`,
\* one search each, every request of it filtered by the node's id; the search
\* in progress is that of the next node; no search is filtered by the id of a
\* node that has children
OneShardPerLeaf(leaves) ==
    /\ Len(de_shards) <= Len(leaves)
    /\ de_pc = "returned" => Len(de_shards) = Len(leaves)
    /\ \A k \in 1..Len(de_shards) :
            /\ de_shards[k].requests # <<>>
            /\ de_shards[k].requests[1]._from = 0
            /\ \A i \in 1..Len(de_shards[k].requests) :
                    de_shards[k].requests[i].fq = CategoryFilter(leaves[k].id)
    /\ de_pc = "shard" =>
            /\ Len(de_shards) < Len(leaves)
            /\ vs_fq = CategoryFilter(leaves[Len(de_shards) + 1].id)
    /\ \A p \in TreePaths(de_tree) \ LeafPaths(de_tree) :
            /\ vs_fq # CategoryFilter(NodeCid(NodeAt(de_tree, p)))
            /\ \A k \in 1..Len(de_shards) :
                    de_shards[k].requests[1].fq # CategoryFilter(NodeCid(NodeAt(de_tree, p)))

Sharding == op = "deep" /\ de_pc \in {"shard", "returned"} /\ de_facets = 1

\* C18 as stated: once the facet tree is fetched, one windowed search is run
\* for every leaf of the tree, in order, each with fq = C:/<leaf id>/, and
\* none for a node with children
C18_OneShardPerLeaf ==
    Sharding => OneShardPerLeaf(DictsAt(de_tree, LeafPaths(de_tree)))

\* C18 amended: once the facet tree is fetched, one windowed search is run
\* for every leaf of the tree that carries a non-empty Id, in order, each with
\* fq = C:/<leaf id>/; none is run for a node with children, and none for a
\* leaf without an Id
C18_OneShardPerIdLeaf ==
    Sharding => OneShardPerLeaf(DictsAt(de_tree, IdLeafPaths(de_tree)))

\* the nested tree was sharded: three searches, for the leaves 1, 2 and 3
C18_Witness ==
    /\ op = "deep"
    /\ de_pc = "returned"
    /\ Len(de_shards) = 3
    /\ Depth(de_tree) = 3
    /\ de_shards[2].requests[1].fq = CategoryFilter(Str(<<"2">>))
    /\ de_shards[1].results # <<>>

\* C20 as stated: whatever the query, no request of the global pass of a deep
\* scrape carries a category filter (fq)
C20_GlobalPassUnfiltered ==
    (op = "deep" /\ de_pc = "global") =>
        /\ vs_fq = PyNone
        /\ \A k \in 1..Len(vs_requests) : vs_requests[k].fq = PyNone

-----------------------------------------------------------------------------
(* Claims about the chosen category crumb *)

\* the positions of the crumbs that survive the filter: slug, lower-cased,
\* neither empty nor "home" nor the last segment of the product's url
Survivors(p, crumbs) ==
    {k \in 1..Len(crumbs) :
        /\ Truthy(crumbs[k].slug)
        /\ Lower(crumbs[k].slug.v) # <<"h", "o", "m", "e">>
        /\ Lower(crumbs[k].slug.v) # Lower(LastSegment(RStripSlash(p.url_producto.v)))}

LastSurvivor(p, crumbs) ==
    crumbs[CHOOSE k \in Survivors(p, crumbs) : \A j \in Survivors(p, crumbs) : j <= k]

\* C25: when at least one crumb survives the filter, the chosen crumb is the
\* last survivor: a product without category takes its category name and id
\* from that crumb (for the trail home, tools, <product> it is tools)
C25_LastSurvivorChosen ==
    \A i \in 1..Len(en_task) :
        (/\ en_task[i] = "done"
         /\ Survivors(en_pre[i], en_resp[i].crumbs) # {}
         /\ ~Truthy(en_pre[i].nombre_categoria)
         /\ ~Truthy(en_pre[i].categoria_id)) =>
            /\ en_products[i].nombre_categoria =
                  truncate(LastSurvivor(en_pre[i], en_resp[i].crumbs).name, 128)
            /\ en_products[i].categoria_id =
                  coerce_str_id(LastSurvivor(en_pre[i], en_resp[i].crumbs).slug, 12)

\* a product whose url ends in /Acme met the trail home, tools, acme and took
\* the category of the tools crumb
C25_Witness ==
    \E i \in 1..Len(en_task) :
        /\ en_task[i] = "done"
        /\ en_resp[i].crumbs = FullTrail
        /\ en_pre[i].nombre_categoria = PyNone
        /\ Survivors(en_pre[i], FullTrail) = {2}
        /\ en_products[i].nombre_categoria = Str(Tools)

\* the crumb the fallback takes when no crumb survives the filter
FallbackCrumb(crumbs) ==
    IF Len(crumbs) >= 2 THEN crumbs[Len(crumbs) - 1] ELSE crumbs[1]

\* C31: when crumbs exist but none survives the filter, a product without
\* category takes its category from the second-to-last raw crumb if there are
\* at least two crumbs and from the single crumb otherwise; when the page has
\* no crumbs, nombre_categoria and categoria_id stay as they were
C31_BreadcrumbFallback ==
    \A i \in 1..Len(en_task) :
        en_task[i] = "done" =>
            /\ (/\ en_resp[i].crumbs # <<>>
                /\ Survivors(en_pre[i], en_resp[i].crumbs) = {}
                /\ ~Truthy(en_pre[i].nombre_categoria)
                /\ ~Truthy(en_pre[i].categoria_id)) =>
                    /\ en_products[i].nombre_categoria =
                          truncate(FallbackCrumb(en_resp[i].crumbs).name, 128)
                    /\ en_products[i].categoria_id =
                          coerce_str_id(FallbackCrumb(en_resp[i].crumbs).slug, 12)
            /\ en_resp[i].crumbs = <<>> =>
                    /\ en_products[i].nombre_categoria = en_pre[i].nombre_categoria
                    /\ en_products[i].categoria_id = en_pre[i].categoria_id

\* one product met the trail Home, Acme (its own crumb last) and took the
\* Home crumb, another met the home crumb alone and took it
C31_Witness ==
    \E i, j \in 1..Len(en_task) :
        /\ en_task[i] = "done" /\ en_task[j] = "done"
        /\ en_pre[i].nombre_categoria = PyNone
        /\ en_resp[i].crumbs = PairTrail
        /\ Survivors(en_pre[i], PairTrail) = {}
        /\ en_products[i].categoria_id = Str(Home)
        /\ en_pre[j].categoria_id = PyNone
        /\ en_resp[j].crumbs = HomeTrail
        /\ en_products[j].categoria_id = Str(<<"h", "o", "m", "e">>)

-----------------------------------------------------------------------------
(* Claims about the admission gate *)

\* C27: a running enrich eventually returns with every task admitted and
\* over, whichever fetches fail, as long as every fetch is answered
C27_EnrichReturns ==
    (en_pc = "running") ~>
        (en_pc = "returned" /\ \A i \in 1..Len(en_task) : en_task[i] \in {"done", "failed"})

\* more products than slots, the first fetch failed, and enrich returned
C27_Witness ==
    /\ en_pc = "returned"
    /\ Len(en_task) > en_limit
    /\ en_task[1] = "failed"
    /\ ~en_resp[1].ok
    /\ en_task[Len(en_task)] \in {"done", "failed"}
    /\ sem = en_limit

-----------------------------------------------------------------------------
(* Claims about the product repositories *)

\* C28 as stated: when save_many meets a stored row with the same key, every
\* stored field other than the product name that is not null keeps its value
C28_FillNullOnly ==
    [][(st_kind' = "pg" /\ st_calls' = st_calls + 1) =>
          \A r \in pg_rows : \E r2 \in pg_rows' :
              /\ r2.sku_id = r.sku_id
              /\ \A c \in DOMAIN r \ {"nombre_producto"} : r[c] # PyNone => r2[c] = r[c]]_vars

\* C29 as stated: after any sequence of save_many calls the repository holds
\* exactly one record for every identity key it was given
C29_OneRecordPerKey ==
    /\ st_kind = "pg" =>
            /\ {r.sku_id : r \in pg_rows} = st_keys
            /\ \A r1, r2 \in pg_rows : r1.sku_id = r2.sku_id => r1 = r2
    /\ st_kind = "memory" =>
            \A key \in st_keys :
                Cardinality({i \in 1..Len(mem_items) : IdentityKey(mem_items[i]) = key}) = 1

-----------------------------------------------------------------------------
(* Claims about the category repositories *)

\* C30: after any sequence of ensure_path calls each slug has one category
\* and each id one slug; a call leaves the id and the slug of every category
\* it found in place; and a call with the same crumb path as the call before
\* returns categories with the same ids and slugs
C30_CategoryIdentity ==
    [][(st_kind' \in {"cat_memory", "cat_sqlite"} /\ st_calls' = st_calls + 1) =>
          /\ \A i, j \in 1..Len(cat_rows') :
                (cat_rows'[i].slug = cat_rows'[j].slug \/ cat_rows'[i].id = cat_rows'[j].id)
                    => i = j
          /\ Len(cat_rows') >= Len(cat_rows)
          /\ \A i \in 1..Len(cat_rows) :
                cat_rows'[i].id = cat_rows[i].id /\ cat_rows'[i].slug = cat_rows[i].slug
          /\ \A i \in 1..Len(cat_out') :
                \E k \in 1..Len(cat_rows') :
                    cat_rows'[k].id = cat_out'[i].id /\ cat_rows'[k].slug = cat_out'[i].slug
          /\ (st_calls > 0 /\ st_last'.arg = st_last.arg) =>
                /\ Len(cat_out') = Len(cat_out)
                /\ \A i \in 1..Len(cat_out) :
                      cat_out'[i].id = cat_out[i].id /\ cat_out'[i].slug = cat_out[i].slug]_vars

\* a path of two crumbs was ensured twice in a row, with other categories
\* already stored, and the second call returned two categories
C30_Witness ==
    /\ st_kind \in {"cat_memory", "cat_sqlite"}
    /\ st_calls = MaxCalls
    /\ st_last.again
    /\ Len(st_last.arg) = 2
    /\ Len(cat_out) = 2
    /\ cat_out[1].id # cat_out[2].id
    /\ Len(cat_rows) >= 3

-----------------------------------------------------------------------------
(* Claims about the two search crawlers *)

\* first occurrences by sku_id among the rows that have one, after `seenSet`
RECURSIVE FreshRows(_, _)
FreshRows(rows, seenSet) ==
    IF rows = <<>> THEN <<>>
    ELSE IF rows[1].sku_id = PyNone \/ rows[1].sku_id.v = <<>> \/ rows[1].sku_id.v \in seenSet
         THEN FreshRows(Tail(rows), seenSet)
         ELSE <<rows[1]>> \o FreshRows(Tail(rows), seenSet \cup {rows[1].sku_id.v})

\* where one turn of a search loop leaves the coroutine, whichever crawler runs it
TurnOutcome(status, payload) ==
    [pc |-> IF status \in {400, 416} THEN "returned"
            ELSE IF status \notin 200..299 THEN "raised"
            ELSE IF payload = <<>> THEN "returned"
            ELSE IF parse_vtex_rest_raises(payload) THEN "raised"
            ELSE IF Len(payload) < vs_size THEN "returned"
            ELSE "loop",
     start |-> IF status \in 200..299 /\ Len(payload) >= vs_size /\ payload # <<>>
                  /\ ~parse_vtex_rest_raises(payload)
               THEN vs_start + vs_size ELSE vs_start,
     collected |-> IF status \in 200..299 /\ payload # <<>> /\ ~parse_vtex_rest_raises(payload)
                   THEN vs_collected \o FreshRows(parse_vtex_rest(payload), vs_seen)
                   ELSE vs_collected]

\* C21: scrape_vtex_rest and _vtex_windowed_search are the same crawler: from
\* the same locals and the same answer a turn of either loop ends in the same
\* position (same error raised or same return), with the same next offset and
\* the same collected list, and the requests of both have the same parameters
C21_SameCrawler ==
    [][/\ (op \in {"rest", "windowed"} /\ vs_pc = "await" /\ vs_pc' # "await") =>
            /\ vs_pc' = TurnOutcome(LastStatus', vs_last').pc
            /\ vs_start' = TurnOutcome(LastStatus', vs_last').start
            /\ vs_collected' = TurnOutcome(LastStatus', vs_last').collected
            /\ vs_seen' = {vs_collected'[i].sku_id.v : i \in 1..Len(vs_collected')}
       /\ (op \in {"rest", "windowed"} /\ vs_pc = "loop" /\ vs_pc' = "await") =>
            vs_requests' = Append(vs_requests,
                [fq |-> PyNone, _from |-> vs_start, _to |-> vs_start + vs_size - 1])]_vars

\* scrape_vtex_rest returned after two windows, the second of which repeated
\* a SKU of the first
C21_Witness ==
    /\ op = "rest"
    /\ vs_pc = "returned"
    /\ Len(vs_requests) = 2
    /\ Len(vs_collected) > 0
    /\ Len(vs_collected) < Len(SelectSeq(vs_parsed, LAMBDA r : Truthy(r.sku_id)))

-----------------------------------------------------------------------------
(* Claims about the page sequence and the failure policy of scrape_all *)

\* C22: once the fetch of listing page k has failed, scrape_all has raised:
\* page k is the last page requested and was requested once, and neither the
\* enrichment nor the save is ever reached
C22_FetchFailureIsFatal ==
    \A k \in 1..Len(sa_served) :
        ~sa_served[k].ok =>
            /\ sa_pc = "raised"
            /\ k = Len(sa_served)
            /\ Len(sa_requested) = k
            /\ \A j \in 1..(k - 1) : sa_requested[j] # sa_requested[k]
            /\ sa_inflight = 0
            /\ en_pc = "idle"
            /\ sa_saved = <<>>

\* the fetch of a listing page failed and the crawl raised
C22_Witness ==
    /\ op = "scrape_all"
    /\ sa_pc = "raised"
    /\ sa_requested # <<>>
    /\ ~sa_served[Len(sa_served)].ok

C26_PartialSuccess ==
    (op = "scrape_all" /\ sa_pc \in {"raised", "returned"} /\ AllFetchesOk) =>
        /\ sa_pc = "returned"
        /\ sa_saved = <<collected>>

-----------------------------------------------------------------------------
(* Claims about the mapping of listing records and the pipeline of scrape_all *)

\* C32 as stated: a listing page that was fetched and carries n >= 1 records
\* yields a batch of n Products, one per record and in record order, each
\* with its absolute url: the page raises no error and, the batch being
\* marked as seen, the absolute url of every record is in the seen set
C32_RecordsMapped ==
    \A k \in 1..Len(sa_served) :
        (sa_served[k].ok /\ Len(sa_served[k].html) >= 1) =>
            /\ ~(sa_pc = "raised" /\ k = Len(sa_served))
            /\ sa_pc # "await" =>
                    \A i \in 1..Len(sa_served[k].html) : NodeUrl(sa_served[k].html[i]) \in seen

\* C33 as stated: with every fetch succeeding, pagination is over only after
\* a page with zero items or after page M of a configured maximum M: a page
\* that has items, seen before or not, is followed by the request of the next
\* page, and an item seen before is not collected again
C33_OnlyEmptyOrMaxEnds ==
    /\ (op = "scrape_all" /\ sa_pc \notin {"loop", "await"} /\ AllFetchesOk) =>
            \/ sa_served # <<>> /\ sa_served[Len(sa_served)].html = <<>>
            \/ sa_max_pages # 0 /\ Len(sa_requested) = sa_max_pages
    /\ \A i, j \in 1..Len(collected) : i # j => UrlKey(collected[i]) # UrlKey(collected[j])

-----------------------------------------------------------------------------
(* Claims about the end of the windowed search *)

\* C34: a window answered 200 whose payload is parsed ends the search exactly
\* when the payload has fewer entries than the window size, whatever the
\* number of rows parsed from it or kept after dedup: a full window advances
\* the offset by the window size, and when none of its rows has a new SKU the
\* result stays as it was
C34_StopByPayloadCount ==
    [][(/\ op = "windowed"
        /\ vs_pc = "await"
        /\ vs_pc' \notin {"await", "raised"}
        /\ vs_served'[Len(vs_served')].status = 200) =>
            /\ vs_pc' = (IF Len(vs_last') < vs_size THEN "returned" ELSE "loop")
            /\ Len(vs_last') >= vs_size =>
                    /\ vs_start' = vs_start + vs_size
                    /\ FreshRows(parse_vtex_rest(vs_last'), vs_seen) = <<>> =>
                            vs_collected' = vs_collected]_vars

\* a full window that carried no SKU row was answered, nothing was collected
\* and the next window has been requested
C34_Witness ==
    /\ op = "windowed"
    /\ vs_pc = "await"
    /\ Len(vs_requests) = 2
    /\ vs_served = <<[status |-> 200, count |-> vs_size]>>
    /\ vs_parsed = <<>>
    /\ vs_collected = <<>>

\* the number of entries an origin that holds T matching entries serves for
\* the k-th window of size W
HonestCount(T, W, k) ==
    IF T <= (k - 1) * W THEN 0
    ELSE IF T - (k - 1) * W < W THEN T - (k - 1) * W ELSE W

\* every window of the search in progress was served honestly: the entries
\* the origin holds at the offsets asked for, or a rejection past the end
ServedHonestly(T) ==
    \A k \in 1..Len(vs_served) :
        \/ vs_served[k] = [status |-> 200, count |-> HonestCount(T, vs_size, k)]
        \/ vs_served[k].status \in {400, 416} /\ T <= (k - 1) * vs_size

\* C35: a search over T entries served honestly never sends more than
\* floor(T/W)+1 requests and has returned once that many were answered; it
\* returns after exactly that many; and a search that is over, honest origin
\* or not, ended on a window that was short, empty, rejected or failing
C35_RequestCount ==
    /\ (op = "deep" /\ de_pc \in {"global", "shard"} /\ ServedHonestly(Len(DeepItems))) =>
            /\ Len(vs_requests) <= (Len(DeepItems) \div vs_size) + 1
            /\ vs_pc # "raised"
            /\ vs_pc = "returned" <=> Len(vs_served) = (Len(DeepItems) \div vs_size) + 1
    /\ (op \in {"windowed", "deep"} /\ de_pc \in {"idle", "global", "shard"}
            /\ vs_pc \in {"returned", "raised"}) =>
            /\ vs_served # <<>>
            /\ \/ vs_served[Len(vs_served)].status # 200
               \/ vs_served[Len(vs_served)].count < vs_size

\* the search over a catalog whose size is a multiple of the window size
\* returned after floor(T/W)+1 requests, the last of them answered empty
C35_Witness ==
    /\ op = "deep"
    /\ de_pc = "global"
    /\ de_catalog = CapThreshold
    /\ de_catalog % vs_size = 0
    /\ ServedHonestly(de_catalog)
    /\ vs_pc = "returned"
    /\ Len(vs_requests) = (de_catalog \div vs_size) + 1
    /\ vs_served[Len(vs_served)] = [status |-> 200, count |-> 0]

-----------------------------------------------------------------------------
(* Claims about the order of the steps of scrape_all *)

-----------------------------------------------------------------------------
(* Claims about failures and merge order in scrape_vtex_rest_deep *)

\* C37: once sharding is triggered, a failed facets request or a failed shard
\* search makes scrape_vtex_rest_deep raise: no request follows, no later
\* shard is run, no result is returned, and nothing happens after the raise
C37_ShardFailureRaises ==
    [][/\ (op = "deep" /\ de_pc = "facets" /\ de_pc' # "facets"
            /\ de_facet_status' \notin 200..299) =>
                /\ de_pc' = "raised"
                /\ vs_requests' = vs_requests
                /\ de_result' = de_result
       /\ (op = "deep" /\ de_pc = "shard" /\ vs_pc = "raised") =>
                /\ de_pc' = "raised"
                /\ vs_requests' = vs_requests
                /\ de_leaf' = de_leaf
                /\ de_shards' = de_shards
                /\ de_result' = de_result
       /\ ~(op = "deep" /\ de_pc = "raised")]_vars

\* the global pass reached the threshold, the first shard was merged, the
\* search of the second shard failed and the deep scrape raised with a later
\* leaf still not searched and nothing returned
C37_Witness ==
    /\ op = "deep"
    /\ de_pc = "raised"
    /\ Len(de_global) >= CapThreshold
    /\ de_facet_status = 200
    /\ vs_pc = "raised"
    /\ Len(de_shards) = 1
    /\ de_leaf = 2
    /\ Len(de_leaves) > 2
    /\ de_result = <<>>

\* the global result followed, shard after shard up to shard n, by the rows of
\* the shard whose sku_id no earlier pass and no earlier row had
RECURSIVE MergedInOrder(_)
MergedInOrder(n) ==
    IF n = 0 THEN de_global
    ELSE LET prev == MergedInOrder(n - 1)
         IN  prev \o FreshRows(de_shards[n].results,
                               {prev[i].sku_id.v : i \in {j \in 1..Len(prev) : prev[j].sku_id # PyNone}})

\* C38: while shards are merged and when the merged list is returned, the
\* list starts with the global result, unchanged and in order, and goes on
\* with the new rows of each shard in leaf order, so a sku_id found by
\* several passes stands where its earliest pass put it; one shard search
\* runs at a time, the one of the leaf after the shards merged so far
C38_MergeOrder ==
    (op = "deep" /\ de_pc \in {"shard", "returned"} /\ de_facets = 1) =>
        /\ SubSeq(de_collected, 1, Len(de_global)) = de_global
        /\ de_collected = MergedInOrder(Len(de_shards))
        /\ de_pc = "returned" => de_result = de_collected
        /\ de_pc = "shard" =>
                /\ de_leaf = Len(de_shards) + 1
                /\ vs_inflight \in {0, 1}
                /\ \A k \in 1..Len(vs_requests) :
                        vs_requests[k].fq = Str(<<"C", ":", "/">> \o de_leaves[de_leaf].id.v \o <<"/">>)

\* three shards were merged after a global pass at the threshold: the merged
\* list is the global result, then the one new row of the first shard, then
\* the one new row of the second, the row both shards returned standing
\* where the first shard put it
C38_Witness ==
    /\ op = "deep"
    /\ de_pc = "returned"
    /\ Len(de_shards) = 3
    /\ Len(de_global) >= CapThreshold
    /\ Len(de_shards[1].results) = 2
    /\ Len(de_shards[2].results) = 2
    /\ Len(de_result) = Len(de_global) + 2
    /\ de_result[Len(de_global) + 1] = de_shards[1].results[2]
    /\ de_result[Len(de_global) + 1] = de_shards[2].results[1]
    /\ de_result[Len(de_global) + 2] = de_shards[2].results[2]

-----------------------------------------------------------------------------
(* Claims about the category store and the fields enrichment leaves alone *)

=============================================================================
